---------------------------- MODULE Spec2Model ----------------------------
(***************************************************************************)
(* Backend of the ACMC C-minus compiler: the assembly emitter              *)
(* (src/assembly.c), the two-pass binary encoder (src/binary_generator.c)  *)
(* and the calling convention the emitted prologue/epilogue implement.     *)
(*                                                                         *)
(* Text is modelled structurally.  An IR line is its five sscanf fields.   *)
(* An assembly line is a record: t is "ins" (an instruction), "cmt" (a     *)
(* numbered "# ..." comment), "func" ("Func f:") or "lab" ("L:"); n is    *)
(* the number printed before the dash, -1 for a line printed without one;  *)
(* mn is the mnemonic (the name for func/lab, the comment text for cmt);   *)
(* ops are the operand tokens; org names the handler that wrote the line.  *)
(* An operand token keeps how it was printed: "r%d" (reg), "%d" (imm) or   *)
(* "%s" (sym).  Identifiers are assumed to contain neither '-' nor ':'     *)
(* nor the text "Func".                                                    *)
(***************************************************************************)
EXTENDS Integers, Sequences, FiniteSets, TLC

VARIABLES
    \* ---- IR -> assembly -> binary pipeline
    phase,      \* "emit": reading IR; "asm": assembly file written; "bin": encoded
    ir,         \* the IR lines read so far
    em,         \* AssemblyContext, processIRLine's statics and the temp file
    asm,        \* the final assembly file
    labels,     \* binary encoder's label table (pass 1)
    pass1_pc,   \* collectLabels' pc when it returns
    words,      \* the words pass 2 emitted, in order
    gen,        \* the IR generator's statics for the function being lowered
    \* ---- execution of the emitted calling convention
    mcfg,       \* the function under execution: parameters, locals, its code
    regs,       \* machine registers
    mem,        \* data memory
    frames,     \* the activations in progress, innermost last
    mpc,        \* index in the code of the next instruction, 0 when stopped
    \* ---- encoder applied to a single line
    eline,      \* the assembly line handed to parseInstruction
    elabels,    \* the label table parseImmediate consults
    eword,      \* the word returned
    edone       \* whether parseInstruction has run

pipeVars == <<phase, ir, em, asm, labels, pass1_pc, words, gen>>
machVars == <<mcfg, regs, mem, frames, mpc>>
encVars == <<eline, elabels, eword, edone>>
vars == <<phase, ir, em, asm, labels, pass1_pc, words, gen,
          mcfg, regs, mem, frames, mpc, eline, elabels, eword, edone>>

----------------------------------------------------------------------------
(* Bounds of the model *)

\* lines of the IR file
MaxIR == 4
\* parameters of the executed function
MaxParams == 3
\* declared locals of the executed function
MaxLocals == 2
\* nested activations of the executed function
MaxDepth == 2

----------------------------------------------------------------------------
(* Tokens and lines *)

Reg(n) == [k |-> "reg", n |-> n, s |-> ""]
Imm(n) == [k |-> "imm", n |-> n, s |-> ""]
Sym(s) == [k |-> "sym", n |-> 0, s |-> s]

Line(t, n, mn, ops, org) == [t |-> t, n |-> n, mn |-> mn, ops |-> ops, org |-> org]

IRLine(op, a1, a2, a3, a4) == [op |-> op, a1 |-> a1, a2 |-> a2, a3 |-> a3, a4 |-> a4]

\* Integer literals that occur as IR operands, and their atoi value
Literals == {"0", "1", "2", "3", "4", "5", "6", "7", "8", "9", "10"}

isImmediate(str) == str \in Literals

\* atoi: the value of a literal, 0 for any other text
LiteralValue(str) ==
    IF str \in Literals
    THEN CHOOSE v \in 0..10 : ToString(v) = str
    ELSE 0

\* the names the generator gives its temporaries: t0 .. t127
TempNames == {"t" \o ToString(k) : k \in 0..127}

\* Names whose first character is 't' (the generator's temporaries t0, t1, ...)
StartsWithT(str) == str \in TempNames

MAX_PENDING_ALLOCAS == 64

----------------------------------------------------------------------------
(* Assembly emitter: src/assembly.c *)

initializeContext ==
    [ out                |-> << >>,
      instruction_count  |-> 1,
      next_temp_reg      |-> 4,
      current_function   |-> "",
      label_counter      |-> 0,
      param_counter      |-> 0,
      in_function        |-> FALSE,
      var_offsets        |-> << >>,
      reg_map            |-> << >>,
      pending_allocas    |-> << >>,
      current_func_name  |-> "",
      current_stack_size |-> 0,
      prologue_emitted   |-> TRUE,
      pre_prologue_phase |-> FALSE ]

emitInstruction(s, mn, ops, org) ==
    [s EXCEPT !.out = Append(@, Line("ins", s.instruction_count, mn, ops, org)),
              !.instruction_count = @ + 1]

\* emitInstruction(ctx, "# ...") : a numbered comment line
emitComment(s, text) ==
    [s EXCEPT !.out = Append(@, Line("cmt", s.instruction_count, text, << >>, "body")),
              !.instruction_count = @ + 1]

emitLabel(s, name) ==
    [s EXCEPT !.out = Append(@, Line("lab", -1, name, << >>, "body"))]

ReservedRegs == {0, 1, 2, 3, 28, 31, 57, 58, 59, 62, 63}

RECURSIVE SkipReserved(_)
SkipReserved(r) ==
    IF r \in ReservedRegs
    THEN SkipReserved(IF r + 1 >= 64 THEN 4 ELSE r + 1)
    ELSE r

\* index of the first valid reg_map entry for name, 0 if none
FindMapped(map, name, i) ==
    IF \E k \in i..Len(map) : map[k].valid /\ map[k].ir_name = name
    THEN CHOOSE k \in i..Len(map) :
            /\ map[k].valid /\ map[k].ir_name = name
            /\ \A j \in i..(k - 1) : ~(map[j].valid /\ map[j].ir_name = name)
    ELSE 0

\* index of the first entry not in use from i on, past the end if none
FirstFree(map, i) ==
    IF \E k \in i..Len(map) : ~map[k].valid
    THEN CHOOSE k \in i..Len(map) :
            /\ ~map[k].valid
            /\ \A j \in i..(k - 1) : map[j].valid
    ELSE IF i > Len(map) THEN i ELSE Len(map) + 1

StoreMapping(map, name, r) ==
    LET i == FirstFree(map, 1)
        e == [ir_name |-> name, phys_reg |-> r, valid |-> TRUE]
    IN  IF i > 128 THEN map
        ELSE IF i > Len(map) THEN Append(map, e)
        ELSE [map EXCEPT ![i] = e]

\* Names of the form R<digit>: IR virtual registers, kept across functions
IsIRVirtual(name) == name \in {"R1", "R2"}

\* R<n>: the number n
IRVirtualNumber(name) == IF name = "R1" THEN 1 ELSE 2

\* allocateRegister: the register returned
AllocReg(s, name) ==
    LET i == FindMapped(s.reg_map, name, 1)
    IN  IF i > 0 THEN s.reg_map[i].phys_reg
        ELSE IF name \in {"r28", "$rf"} THEN 28
        ELSE IF IsIRVirtual(name) THEN 8 + (IRVirtualNumber(name) % 20)
        ELSE SkipReserved(s.next_temp_reg)

\* allocateRegister: the context it leaves
AllocState(s, name) ==
    LET i == FindMapped(s.reg_map, name, 1)
        r == SkipReserved(s.next_temp_reg)
    IN  IF i > 0 \/ name \in {"r28", "$rf"} THEN s
        ELSE IF IsIRVirtual(name)
        THEN [s EXCEPT !.reg_map = StoreMapping(@, name, 8 + (IRVirtualNumber(name) % 20))]
        ELSE [s EXCEPT !.next_temp_reg = IF r + 1 >= 57 THEN 4 ELSE r + 1,
                       !.reg_map = StoreMapping(@, name, r)]

\* one call of allocateRegister: the register (r) and the context after it (st)
Alloc(s, name) ==
    CHOOSE d \in {[r |-> AllocReg(c, name), st |-> AllocState(c, name)] : c \in {s}} : TRUE

resetFunctionContext(s, func_name) ==
    [s EXCEPT !.current_function = func_name,
              !.in_function = TRUE,
              !.var_offsets = << >>,
              !.reg_map = [i \in 1..Len(s.reg_map) |->
                              IF s.reg_map[i].valid /\ ~IsIRVirtual(s.reg_map[i].ir_name)
                              THEN [s.reg_map[i] EXCEPT !.valid = FALSE]
                              ELSE s.reg_map[i]],
              !.next_temp_reg = 4,
              !.param_counter = 0]

\* offset recorded for scope.name in var_offsets, -1 if none
RECURSIVE LookupOffset(_, _, _, _)
LookupOffset(vo, scope, name, i) ==
    IF i > Len(vo) THEN -1
    ELSE IF vo[i].name = name /\ vo[i].scope = scope THEN vo[i].offset
    ELSE LookupOffset(vo, scope, name, i + 1)

BufferAlloca(s, line) ==
    IF Len(s.pending_allocas) < MAX_PENDING_ALLOCAS
    THEN [s EXCEPT !.pending_allocas = Append(@, [scope |-> line.a1, name |-> line.a2])]
    ELSE s

\* the pending allocas of one scope become the frame's var_offsets, in order
RECURSIVE FlushPending(_, _, _)
FlushPending(pend, scope, vo) ==
    IF pend = << >> THEN vo
    ELSE IF Head(pend).scope = scope
         THEN FlushPending(Tail(pend), scope,
                  Append(vo, [scope |-> scope, name |-> Head(pend).name,
                              offset |-> Len(vo) + 1]))
         ELSE FlushPending(Tail(pend), scope, vo)

RECURSIVE RemovePending(_, _)
RemovePending(pend, scope) ==
    IF pend = << >> THEN << >>
    ELSE IF Head(pend).scope = scope THEN RemovePending(Tail(pend), scope)
    ELSE <<Head(pend)>> \o RemovePending(Tail(pend), scope)

FunInicio(s, line) ==
    LET s1 == [s EXCEPT !.current_func_name = line.a1,
                        !.prologue_emitted = FALSE,
                        !.pre_prologue_phase = TRUE,
                        !.out = Append(@, Line("func", -1, line.a1, << >>, "header"))]
        s2 == resetFunctionContext(s1, line.a1)
    IN  [s2 EXCEPT !.var_offsets = FlushPending(s.pending_allocas, line.a1, << >>),
                   !.pending_allocas = RemovePending(s.pending_allocas, line.a1)]

\* number of "sw r<i> r30 <i>" parameter saves the prologue writes
SavedParamCount(s) ==
    IF s.current_func_name # "main"
    THEN (IF Len(s.var_offsets) < 2 THEN Len(s.var_offsets) ELSE 2)
    ELSE 0

RECURSIVE EmitParamSaves(_, _, _)
EmitParamSaves(s, i, n) ==
    IF i > n THEN s
    ELSE EmitParamSaves(emitInstruction(s, "sw", <<Reg(i), Reg(30), Imm(i)>>, "prologue"),
                        i + 1, n)

FrameSize(s) == Len(s.var_offsets) + 1

EmitPrologue(s) ==
    LET s0 == [s EXCEPT !.current_stack_size = FrameSize(s)]
        s1 == emitInstruction(s0, "addi", <<Reg(30), Reg(30), Imm(s0.current_stack_size)>>,
                              "prologue")
        s2 == emitInstruction(s1, "sw", <<Reg(31), Reg(30), Imm(0)>>, "prologue")
        s3 == EmitParamSaves(s2, 1, SavedParamCount(s))
    IN  [s3 EXCEPT !.prologue_emitted = TRUE, !.pre_prologue_phase = FALSE]

\* a frame size that forgets the return-address slot
EpilogueSize_NoRA(s) == Len(s.var_offsets)

EpilogueSize(s) == s.current_stack_size

FunFim(s, line) ==
    LET s1 == IF ~s.prologue_emitted
              THEN [emitInstruction(
                       emitInstruction(s, "addi",
                           <<Reg(30), Reg(30), Imm(s.current_stack_size)>>, "prologue"),
                       "sw", <<Reg(31), Reg(30), Imm(0)>>, "prologue")
                    EXCEPT !.prologue_emitted = TRUE]
              ELSE s
        s2 == IF line.a1 = "main"
              THEN emitInstruction(s1, "halt", << >>, "epilogue")
              ELSE emitInstruction(
                     emitInstruction(
                       emitInstruction(s1, "lw", <<Reg(31), Reg(30), Imm(0)>>, "epilogue"),
                       "subi", <<Reg(30), Reg(30), Imm(EpilogueSize(s1))>>, "epilogue"),
                     "jr", <<Reg(31)>>, "epilogue")
    IN  [s2 EXCEPT !.in_function = FALSE]

\* a run of emitInstruction calls; each element is <<mnemonic, operands>>
EmitSeq(s, ls) ==
    [s EXCEPT !.out = @ \o [k \in 1..Len(ls) |->
                               Line("ins", s.instruction_count + k - 1, ls[k][1], ls[k][2],
                                    "body")],
              !.instruction_count = @ + Len(ls)]

InvalidateMapping(s, name) ==
    LET i == FindMapped(s.reg_map, name, 1)
    IN  IF i > 0 THEN [s EXCEPT !.reg_map[i].valid = FALSE] ELSE s

LoadVar_KeepMapping(s, l) ==
    LET offset == LookupOffset(s.var_offsets, l.a1, l.a2, 1)
        d  == Alloc(s, l.a3)
    IN  emitInstruction(d.st, "lw",
            <<Reg(d.r), Reg(30), Imm(IF offset >= 0 THEN offset ELSE 0)>>, "body")

LoadVar(s, l) ==
    LET offset == LookupOffset(s.var_offsets, l.a1, l.a2, 1)
        s1 == IF StartsWithT(l.a3) THEN InvalidateMapping(s, l.a3) ELSE s
        d  == Alloc(s1, l.a3)
    IN  emitInstruction(d.st, "lw",
            <<Reg(d.r), Reg(30), Imm(IF offset >= 0 THEN offset ELSE 0)>>, "body")

StoreVar(s, l) ==
    LET offset == LookupOffset(s.var_offsets, l.a3, l.a2, 1)
        src == Alloc(s, l.a1)
    IN  emitInstruction(src.st, "sw",
            <<Reg(src.r), Reg(30), Imm(IF offset >= 0 THEN offset ELSE 0)>>, "body")

Param(s, l) ==
    LET s1 == [s EXCEPT !.param_counter = @ + 1]
        n  == s1.param_counter
    IN  IF isImmediate(l.a1)
        THEN IF LiteralValue(l.a1) = 0
             THEN emitInstruction(s1, "move", <<Reg(n), Reg(0)>>, "body")
             ELSE emitInstruction(s1, "addi", <<Reg(n), Reg(0), Imm(LiteralValue(l.a1))>>, "body")
        ELSE LET v == Alloc(s1, l.a1)
             IN  emitInstruction(v.st, "move", <<Reg(n), Reg(v.r)>>, "body")

Call(s, l) ==
    LET s1 == IF l.a1 = "input" THEN emitInstruction(s, "input", <<Reg(28)>>, "body")
              ELSE IF l.a1 = "output" THEN emitInstruction(s, "outputreg", <<Reg(1)>>, "body")
              ELSE emitInstruction(s, "jal", <<Sym(l.a1)>>, "body")
    IN  [s1 EXCEPT !.param_counter = 0]

Move(s, l) ==
    LET d  == IF l.a1 = "$rf" THEN [r |-> 28, st |-> s] ELSE Alloc(s, l.a1)
        sr == IF l.a2 = "$rf" THEN [r |-> 28, st |-> d.st] ELSE Alloc(d.st, l.a2)
    IN  emitInstruction(sr.st, "move", <<Reg(d.r), Reg(sr.r)>>, "body")

Add(s, l) ==
    LET s1 == Alloc(s, l.a1)
        d  == Alloc(s1.st, l.a3)
    IN  IF isImmediate(l.a2)
        THEN emitInstruction(d.st, "addi", <<Reg(d.r), Reg(s1.r), Imm(LiteralValue(l.a2))>>, "body")
        ELSE LET s2 == Alloc(d.st, l.a2)
             IN  emitInstruction(s2.st, "add", <<Reg(d.r), Reg(s1.r), Reg(s2.r)>>, "body")

\* the three allocateRegister calls shared by sub, mult, div, slt, sgt, slet, sget
Alloc3(s, l) ==
    LET s1 == Alloc(s, l.a1)
        s2 == Alloc(s1.st, l.a2)
        d  == Alloc(s2.st, l.a3)
    IN  [src1 |-> s1.r, src2 |-> s2.r, dest |-> d.r, st |-> d.st]

Sub(s, l) ==
    LET a == Alloc3(s, l)
    IN  EmitSeq(a.st, << <<"sub", <<Reg(a.dest), Reg(a.src1), Reg(a.src2)>> >> >>)

Mult(s, l) ==
    LET a == Alloc3(s, l)
    IN  EmitSeq(a.st, << <<"mult", <<Reg(a.src1), Reg(a.src2)>> >>,
                         <<"mflo", <<Reg(a.dest)>> >> >>)

Div(s, l) ==
    LET a == Alloc3(s, l)
    IN  EmitSeq(a.st, << <<"div", <<Reg(a.src1), Reg(a.src2)>> >>,
                         <<"mflo", <<Reg(a.dest)>> >> >>)

Slt(s, l) ==
    LET a == Alloc3(s, l)
    IN  EmitSeq(a.st, << <<"slt", <<Reg(a.dest), Reg(a.src1), Reg(a.src2)>> >> >>)

Sgt(s, l) ==
    LET a == Alloc3(s, l)
    IN  EmitSeq(a.st, << <<"slt", <<Reg(a.dest), Reg(a.src2), Reg(a.src1)>> >> >>)

Slet(s, l) ==
    LET a == Alloc3(s, l)
    IN  EmitSeq(a.st, << <<"slt", <<Reg(59), Reg(a.src2), Reg(a.src1)>> >>,
                         <<"slt", <<Reg(a.dest), Reg(59), Imm(1)>> >>,
                         <<"andi", <<Reg(a.dest), Reg(a.dest), Imm(1)>> >> >>)

Sget(s, l) ==
    LET a == Alloc3(s, l)
    IN  EmitSeq(a.st, << <<"slt", <<Reg(59), Reg(a.src1), Reg(a.src2)>> >>,
                         <<"slt", <<Reg(a.dest), Reg(59), Imm(1)>> >>,
                         <<"andi", <<Reg(a.dest), Reg(a.dest), Imm(1)>> >> >>)

LabelName(prefix, k) == prefix \o ToString(k)

\* the common tail of sdt: bne / li 0 / j / neq: / li 1 / end:
SdtTail(s, dest) ==
    LET k  == s.label_counter
        s1 == EmitSeq(s, << <<"bne", <<Reg(59), Reg(0), Sym(LabelName("neq_", k))>> >>,
                            <<"li", <<Reg(dest), Imm(0)>> >>,
                            <<"j", <<Sym(LabelName("end_", k))>> >> >>)
        s2 == emitLabel(s1, LabelName("neq_", k))
        s3 == EmitSeq(s2, << <<"li", <<Reg(dest), Imm(1)>> >> >>)
        s4 == emitLabel(s3, LabelName("end_", k))
    IN  [s4 EXCEPT !.label_counter = @ + 1]

Sdt(s, l) ==
    LET s1 == Alloc(s, l.a1)
        d  == Alloc(s1.st, l.a3)
    IN  IF isImmediate(l.a2)
        THEN IF LiteralValue(l.a2) = 0
             THEN SdtTail(EmitSeq(d.st, << <<"move", <<Reg(59), Reg(s1.r)>> >> >>), d.r)
             ELSE SdtTail(EmitSeq(d.st,
                      << <<"addi", <<Reg(58), Reg(0), Imm(LiteralValue(l.a2))>> >>,
                         <<"sub", <<Reg(59), Reg(s1.r), Reg(58)>> >> >>), d.r)
        ELSE LET s2 == Alloc(d.st, l.a2)
             IN  SdtTail(EmitSeq(s2.st,
                      << <<"sub", <<Reg(59), Reg(s1.r), Reg(s2.r)>> >> >>), d.r)

LoadVet(s, l) ==
    LET d   == Alloc(s, l.a4)
        idx == Alloc(d.st, l.a3)
    IN  EmitSeq(idx.st, << <<"addi", <<Reg(57), Reg(30), Imm(LiteralValue(l.a2))>> >>,
                           <<"sll", <<Reg(58), Reg(idx.r), Imm(2)>> >>,
                           <<"add", <<Reg(57), Reg(57), Reg(58)>> >>,
                           <<"lw", <<Reg(d.r), Reg(57), Imm(0)>> >> >>)

StoreVet(s, l) ==
    LET src == Alloc(s, l.a1)
        idx == Alloc(src.st, l.a4)
    IN  EmitSeq(idx.st, << <<"addi", <<Reg(57), Reg(30), Imm(LiteralValue(l.a3))>> >>,
                           <<"sll", <<Reg(58), Reg(idx.r), Imm(2)>> >>,
                           <<"add", <<Reg(57), Reg(57), Reg(58)>> >>,
                           <<"sw", <<Reg(src.r), Reg(57), Imm(0)>> >> >>)

Li(s, l) ==
    LET rt == Alloc(s, l.a1)
    IN  IF LiteralValue(l.a2) = 0
        THEN emitInstruction(rt.st, "move", <<Reg(rt.r), Reg(0)>>, "body")
        ELSE emitInstruction(rt.st, "addi", <<Reg(rt.r), Reg(0), Imm(LiteralValue(l.a2))>>, "body")

\* the common tail of set: r59 == 0 tested with slt/slt/add/slt/andi
SetTail(s, dest) ==
    EmitSeq(s, << <<"slt", <<Reg(60), Reg(0), Reg(59)>> >>,
                  <<"slt", <<Reg(61), Reg(59), Reg(0)>> >>,
                  <<"add", <<Reg(58), Reg(60), Reg(61)>> >>,
                  <<"slt", <<Reg(dest), Reg(58), Imm(1)>> >>,
                  <<"andi", <<Reg(dest), Reg(dest), Imm(1)>> >> >>)

Set(s, l) ==
    LET s1 == Alloc(s, l.a1)
        d  == Alloc(s1.st, l.a3)
    IN  IF isImmediate(l.a2)
        THEN IF LiteralValue(l.a2) = 0
             THEN EmitSeq(d.st, << <<"slt", <<Reg(d.r), Reg(s1.r), Imm(1)>> >>,
                                   <<"andi", <<Reg(d.r), Reg(d.r), Imm(1)>> >> >>)
             ELSE SetTail(EmitSeq(d.st,
                      << <<"addi", <<Reg(58), Reg(0), Imm(LiteralValue(l.a2))>> >>,
                         <<"sub", <<Reg(59), Reg(s1.r), Reg(58)>> >> >>), d.r)
        ELSE LET s2 == Alloc(d.st, l.a2)
             IN  SetTail(EmitSeq(s2.st,
                      << <<"sub", <<Reg(59), Reg(s1.r), Reg(s2.r)>> >> >>), d.r)

SeqEq(s, l) ==
    LET s1 == Alloc(s, l.a1)
        d  == Alloc(s1.st, l.a3)
    IN  IF isImmediate(l.a2)
        THEN EmitSeq(d.st, << <<"li", <<Reg(58), Imm(LiteralValue(l.a2))>> >>,
                              <<"set", <<Reg(d.r), Reg(s1.r), Reg(58)>> >> >>)
        ELSE LET s2 == Alloc(d.st, l.a2)
             IN  EmitSeq(s2.st, << <<"set", <<Reg(d.r), Reg(s1.r), Reg(s2.r)>> >> >>)

\* the common tail of sne: r59 != 0 tested with slt/slt/add/andi
SneTail(s, dest) ==
    EmitSeq(s, << <<"slt", <<Reg(58), Reg(0), Reg(59)>> >>,
                  <<"slt", <<Reg(57), Reg(59), Reg(0)>> >>,
                  <<"add", <<Reg(dest), Reg(58), Reg(57)>> >>,
                  <<"andi", <<Reg(dest), Reg(dest), Imm(1)>> >> >>)

Sne(s, l) ==
    LET s1 == Alloc(s, l.a1)
        d  == Alloc(s1.st, l.a3)
    IN  IF isImmediate(l.a2)
        THEN IF LiteralValue(l.a2) = 0
             THEN EmitSeq(d.st, << <<"slt", <<Reg(59), Reg(s1.r), Imm(1)>> >>,
                                   <<"slt", <<Reg(58), Reg(0), Reg(s1.r)>> >>,
                                   <<"add", <<Reg(d.r), Reg(59), Reg(58)>> >>,
                                   <<"andi", <<Reg(d.r), Reg(d.r), Imm(1)>> >> >>)
             ELSE SneTail(EmitSeq(d.st,
                      << <<"addi", <<Reg(58), Reg(0), Imm(LiteralValue(l.a2))>> >>,
                         <<"sub", <<Reg(59), Reg(s1.r), Reg(58)>> >> >>), d.r)
        ELSE LET s2 == Alloc(d.st, l.a2)
             IN  SneTail(EmitSeq(s2.st,
                      << <<"sub", <<Reg(59), Reg(s1.r), Reg(s2.r)>> >> >>), d.r)

Bne(s, l) ==
    LET c == Alloc(s, l.a1)
    IN  emitInstruction(c.st, "bne", <<Reg(c.r), Reg(0), Sym(l.a2)>>, "body")

Jump(s, l) == emitInstruction(s, "j", <<Sym(l.a1)>>, "body")

LabelOp(s, l) == emitLabel(s, l.a1)

GlobalArray(s, l) == emitComment(s, "# Global array")

UnknownIR_Dropped(s, l) == s

UnknownIR(s, l) ==
    IF l.op = "allocaMemVar" THEN s ELSE emitComment(s, "# Unknown IR:")

\* the else-if chain of processIRLine after the prologue test.  The legacy
\* upper-case operations (PARAM, MOV, ADD, ..., STORE_ARRAY) are never written
\* by the IR generator and are not part of the IR alphabet modelled here.
Translate(s, l) ==
    CASE l.op = "loadVar"  /\ s.in_function -> LoadVar(s, l)
      [] l.op = "storeVar" /\ s.in_function -> StoreVar(s, l)
      [] l.op = "funFim"   /\ s.in_function -> FunFim(s, l)
      [] l.op = "param"        -> Param(s, l)
      [] l.op = "call"         -> Call(s, l)
      [] l.op = "move"         -> Move(s, l)
      [] l.op = "add"          -> Add(s, l)
      [] l.op = "sub"          -> Sub(s, l)
      [] l.op = "mult"         -> Mult(s, l)
      [] l.op = "div"          -> Div(s, l)
      [] l.op = "slt"          -> Slt(s, l)
      [] l.op = "sgt"          -> Sgt(s, l)
      [] l.op = "slet"         -> Slet(s, l)
      [] l.op = "sget"         -> Sget(s, l)
      [] l.op = "sdt"          -> Sdt(s, l)
      [] l.op = "loadVet"      -> LoadVet(s, l)
      [] l.op = "storeVet"     -> StoreVet(s, l)
      [] l.op = "GLOBAL_ARRAY" -> GlobalArray(s, l)
      [] l.op = "li"           -> Li(s, l)
      [] l.op = "set"          -> Set(s, l)
      [] l.op = "seq"          -> SeqEq(s, l)
      [] l.op = "sne"          -> Sne(s, l)
      [] l.op = "bne"          -> Bne(s, l)
      [] l.op = "jump"         -> Jump(s, l)
      [] l.op = "label_op"     -> LabelOp(s, l)
      [] OTHER                 -> UnknownIR(s, l)

PrologueDue(s, l) ==
    /\ s.in_function
    /\ ~s.prologue_emitted
    /\ s.pre_prologue_phase
    /\ l.op # "allocaMemVar"
    /\ l.op # "funInicio"

processIRLine(s, l) ==
    IF l.op = "allocaMemVar" /\ ~s.in_function THEN BufferAlloca(s, l)
    ELSE IF l.op = "funInicio" THEN FunInicio(s, l)
    ELSE IF PrologueDue(s, l) THEN Translate(EmitPrologue(s), l)
    ELSE Translate(s, l)

----------------------------------------------------------------------------
(* What the C string tests see in an assembly line *)

\* strchr(line, '-'): the line carries an instruction number
HasDash(l) == l.n >= 0

\* the text after the number starts with '#'
StartsHash(l) == l.t = "cmt"

\* strstr(line, "Func")
HasFunc(l) == l.t = "func"

\* strchr(line, ':')
HasColon(l) == l.t \in {"func", "lab"} \/ (l.t = "cmt" /\ l.mn = "# Unknown IR:")

\* strlen of the text after the number is 1 or 2
IsShort(l) == l.t = "ins" /\ l.ops = << >> /\ l.mn \in {"j", "jr", "or", "li", "la", "lw", "sw"}

\* the text a label-like line has before its colon (after the number)
TextBeforeColon(l) == IF l.t = "cmt" THEN "# Unknown IR" ELSE l.mn

----------------------------------------------------------------------------
(* Entry fix-up: generateAssemblyFromIRImproved, after the IR loop *)

\* number of the first numbered colon-free line after "Func main:", -1 if none
RECURSIVE FindMainLine(_, _, _)
FindMainLine(out, i, found_main) ==
    IF i > Len(out) THEN -1
    ELSE IF out[i].t = "func" /\ out[i].mn = "main" THEN FindMainLine(out, i + 1, TRUE)
    ELSE IF found_main /\ HasDash(out[i]) /\ ~HasColon(out[i]) THEN out[i].n
    ELSE FindMainLine(out, i + 1, found_main)

\* the entry jump left at its default
EntryTarget_Default(out) == 1

EntryTarget(out) ==
    LET main_line == FindMainLine(out, 1, FALSE)
    IN  IF main_line >= 0 THEN main_line ELSE 1

FixUp(out) == <<Line("ins", -1, "j", <<Imm(EntryTarget(out))>>, "entry")>> \o out

----------------------------------------------------------------------------
(* Binary encoder: src/binary_generator.c *)

FORMAT_R == "R"
FORMAT_I == "I"
FORMAT_J == "J"

Instr(m, o, f) == [mnemonic |-> m, opcode |-> o, format |-> f]

instructions ==
    << Instr("add", 0, FORMAT_R),   Instr("sub", 1, FORMAT_R),
       Instr("mult", 2, FORMAT_R),  Instr("div", 3, FORMAT_R),
       Instr("and", 4, FORMAT_R),   Instr("or", 5, FORMAT_R),
       Instr("sll", 6, FORMAT_R),   Instr("srl", 7, FORMAT_R),
       Instr("slt", 8, FORMAT_R),   Instr("mfhi", 9, FORMAT_R),
       Instr("mflo", 10, FORMAT_R), Instr("move", 11, FORMAT_R),
       Instr("jr", 12, FORMAT_R),   Instr("jalr", 13, FORMAT_R),
       Instr("la", 14, FORMAT_I),   Instr("addi", 15, FORMAT_I),
       Instr("subi", 16, FORMAT_I), Instr("andi", 17, FORMAT_I),
       Instr("ori", 18, FORMAT_I),  Instr("beq", 19, FORMAT_I),
       Instr("bne", 20, FORMAT_I),  Instr("bgt", 21, FORMAT_I),
       Instr("bgte", 22, FORMAT_I), Instr("blt", 23, FORMAT_I),
       Instr("blte", 24, FORMAT_I), Instr("lw", 25, FORMAT_I),
       Instr("sw", 26, FORMAT_I),   Instr("li", 27, FORMAT_I),
       Instr("j", 28, FORMAT_J),    Instr("jal", 29, FORMAT_J),
       Instr("halt", 30, FORMAT_R), Instr("outputmem", 31, FORMAT_I),
       Instr("outputreg", 32, FORMAT_R), Instr("outputreset", 33, FORMAT_R),
       Instr("input", 34, FORMAT_R) >>

\* index in the table of the first entry with this mnemonic, 0 if none
\* index of the first table entry from i on with the mnemonic, 0 if none
findInstruction(mnemonic, i) ==
    IF \E k \in i..Len(instructions) : instructions[k].mnemonic = mnemonic
    THEN CHOOSE k \in i..Len(instructions) :
            /\ instructions[k].mnemonic = mnemonic
            /\ \A j \in i..(k - 1) : instructions[j].mnemonic # mnemonic
    ELSE 0

\* A 32-bit word is the function from bit position (0 = least significant) to
\* the bit.  Field(v, width, shift) is ((uint32_t)v & (2^width - 1)) << shift.
BitPos == 0..31

Field(v, width, shift) ==
    [i \in BitPos |->
        IF i >= shift /\ i < shift + width
        THEN ((v % (2 ^ width)) \div (2 ^ (i - shift))) % 2
        ELSE 0]

WordOr(a, b) == [i \in BitPos |-> IF a[i] = 1 \/ b[i] = 1 THEN 1 ELSE 0]

ZeroWord == [i \in BitPos |-> 0]

\* 0xFFFFFFFF: parseInstruction's marker for a line that is not an instruction
NotAnInstruction == [i \in BitPos |-> 1]

\* the unsigned value of bits hi..lo of a word
RECURSIVE BitsOf(_, _, _)
\* the number whose binary digits are bits lo..hi of w (lower half of the bits,
\* then the upper half above it)
BitsOf(w, hi, lo) ==
    IF hi < lo THEN 0
    ELSE IF hi = lo THEN w[lo]
    ELSE BitsOf(w, (lo + hi) \div 2, lo)
         + 2 ^ (((lo + hi) \div 2) - lo + 1) * BitsOf(w, hi, ((lo + hi) \div 2) + 1)

parseRegister(tok) == IF tok.k = "reg" THEN tok.n ELSE 0

RECURSIVE LabelAddress(_, _, _)
LabelAddress(tab, name, i) ==
    IF i > Len(tab) THEN -1
    ELSE IF tab[i].name = name THEN tab[i].address
    ELSE LabelAddress(tab, name, i + 1)

parseImmediate(tok, tab) ==
    IF tok.k = "sym" /\ LabelAddress(tab, tok.s, 1) >= 0 THEN LabelAddress(tab, tok.s, 1)
    ELSE IF tok.k = "imm" THEN tok.n
    ELSE 0

generateRType(instr, rs, rt, rd, shamt) ==
    WordOr(WordOr(WordOr(WordOr(Field(instr.opcode, 6, 26), Field(rs, 6, 20)),
                         Field(rt, 6, 14)), Field(rd, 6, 8)), Field(shamt, 8, 0))

BranchMnemonics == {"beq", "bne", "bgt", "bgte", "blt", "blte"}

\* an I-format encoding without the branch case
generateIType_NoBranch(instr, rs, rt, immediate) ==
    WordOr(WordOr(WordOr(Field(instr.opcode, 6, 26), Field(rs, 6, 20)),
                  Field(rt, 6, 14)), Field(immediate, 14, 0))

generateIType(instr, rs, rt, immediate) ==
    IF instr.mnemonic \in BranchMnemonics
    THEN WordOr(WordOr(WordOr(Field(instr.opcode, 6, 26), Field(rs, 6, 20)),
                       Field(rt, 6, 14)), Field(immediate, 6, 0))
    ELSE WordOr(WordOr(WordOr(Field(instr.opcode, 6, 26), Field(rs, 6, 20)),
                       Field(rt, 6, 14)), Field(immediate, 14, 0))

generateJType(instr, address) ==
    WordOr(Field(instr.opcode, 6, 26), Field(address, 6, 0))

\* FORMAT_R operand decoding; tokens[k] is ops[k], token_count is Len(ops) + 1
RFields(m, ops, tab) ==
    LET tc == Len(ops) + 1
        none == [rs |-> 0, rt |-> 0, rd |-> 0, shamt |-> 0]
    IN  CASE m \in {"add", "sub", "and", "or", "slt"} ->
               IF tc >= 4
               THEN [none EXCEPT !.rd = parseRegister(ops[1]),
                                 !.rs = parseRegister(ops[2]),
                                 !.rt = parseRegister(ops[3])]
               ELSE none
          [] m \in {"mult", "div"} ->
               IF tc >= 3
               THEN [none EXCEPT !.rs = parseRegister(ops[1]),
                                 !.rt = parseRegister(ops[2])]
               ELSE none
          [] m = "move" ->
               IF tc >= 3
               THEN [none EXCEPT !.rd = parseRegister(ops[1]),
                                 !.rs = parseRegister(ops[2])]
               ELSE none
          [] m \in {"mfhi", "mflo"} ->
               IF tc >= 2 THEN [none EXCEPT !.rd = parseRegister(ops[1])] ELSE none
          [] m \in {"jr", "jalr"} ->
               IF tc >= 2 THEN [none EXCEPT !.rs = parseRegister(ops[1])] ELSE none
          [] m \in {"sll", "srl"} ->
               IF tc >= 4
               THEN [none EXCEPT !.rd = parseRegister(ops[1]),
                                 !.rs = parseRegister(ops[2]),
                                 !.shamt = parseImmediate(ops[3], tab)]
               ELSE none
          [] m = "outputreg" ->
               IF tc >= 2 THEN [none EXCEPT !.rs = parseRegister(ops[1])] ELSE none
          [] m = "input" ->
               IF tc >= 2 THEN [none EXCEPT !.rd = parseRegister(ops[1])] ELSE none
          [] OTHER -> none

\* FORMAT_I operand decoding
IFields(m, ops, tab) ==
    LET tc == Len(ops) + 1
        none == [rs |-> 0, rt |-> 0, immediate |-> 0]
    IN  CASE m \in {"addi", "subi", "andi", "ori"} ->
               IF tc >= 4
               THEN [rt |-> parseRegister(ops[1]), rs |-> parseRegister(ops[2]),
                     immediate |-> parseImmediate(ops[3], tab)]
               ELSE none
          [] m \in {"li", "la"} ->
               IF tc >= 3
               THEN [none EXCEPT !.rt = parseRegister(ops[1]),
                                 !.immediate = parseImmediate(ops[2], tab)]
               ELSE none
          [] m \in BranchMnemonics ->
               IF tc >= 4
               THEN [rs |-> parseRegister(ops[1]), rt |-> parseRegister(ops[2]),
                     immediate |-> parseImmediate(ops[3], tab)]
               ELSE none
          [] m \in {"lw", "sw"} ->
               IF tc >= 4
               THEN [rt |-> parseRegister(ops[1]), rs |-> parseRegister(ops[2]),
                     immediate |-> parseImmediate(ops[3], tab)]
               ELSE IF tc >= 3
               THEN [none EXCEPT !.rt = parseRegister(ops[1]),
                                 !.rs = parseRegister(ops[2])]
               ELSE none
          [] m = "outputmem" ->
               IF tc >= 3
               THEN [none EXCEPT !.rs = parseRegister(ops[1]),
                                 !.immediate = parseImmediate(ops[2], tab)]
               ELSE none
          [] OTHER -> none

parseInstruction(l, tab) ==
    IF StartsHash(l) THEN ZeroWord
    ELSE IF HasFunc(l) THEN NotAnInstruction
    ELSE IF HasColon(l) THEN NotAnInstruction
    ELSE IF IsShort(l) THEN NotAnInstruction
    ELSE LET k == findInstruction(l.mn, 1)
         IN  IF k = 0 THEN ZeroWord
             ELSE LET instr == instructions[k]
                  IN  CASE instr.format = FORMAT_R ->
                             LET f == RFields(instr.mnemonic, l.ops, tab)
                             IN  generateRType(instr, f.rs, f.rt, f.rd, f.shamt)
                        [] instr.format = FORMAT_I ->
                             LET f == IFields(instr.mnemonic, l.ops, tab)
                             IN  generateIType(instr, f.rs, f.rt, f.immediate)
                        [] OTHER ->
                             generateJType(instr,
                                 IF Len(l.ops) + 1 >= 2 THEN parseImmediate(l.ops[1], tab)
                                 ELSE 0)

\* a pass 1 that lets colon-free comment lines set the pc
Pass1Counts_Comments(l) == ~HasFunc(l) /\ ~HasColon(l)

\* pass 1, the pc update for a numbered line
Pass1Counts(l) == ~HasFunc(l) /\ ~HasColon(l) /\ ~StartsHash(l)

\* pass 1, one line: cl is [pc, labels]
CollectLine(cl, l) ==
    LET pc1 == IF HasDash(l) /\ Pass1Counts(l) THEN l.n ELSE cl.pc
        lb  == IF l.t = "func"
               THEN Append(cl.labels, [name |-> l.mn, address |-> pc1])
               ELSE IF HasColon(l) /\ ~HasFunc(l)
               THEN Append(cl.labels, [name |-> TextBeforeColon(l), address |-> pc1 + 1])
               ELSE cl.labels
        pc2 == IF ~HasDash(l) /\ ~StartsHash(l) /\ ~HasFunc(l) /\ ~HasColon(l)
               THEN pc1 + 1 ELSE pc1
    IN  [pc |-> pc2, labels |-> lb]

RECURSIVE CollectRange(_, _, _, _)
\* pass 1 over lines lo..hi in order (the first half of them, then the second)
CollectRange(file, lo, hi, cl) ==
    IF lo > hi THEN cl
    ELSE IF lo = hi THEN CollectLine(cl, file[lo])
    ELSE CHOOSE q \in
           {CollectRange(file, ((lo + hi) \div 2) + 1, hi, c) :
              c \in {CollectRange(file, lo, (lo + hi) \div 2, cl)}} : TRUE

collectLabels(file, i, cl) == CollectRange(file, i, Len(file), cl)

\* pass 2, one line: the words written so far, extended or not
EncodeLine(ws, l, tab) ==
    LET binary == parseInstruction(l, tab)
    IN  IF binary = NotAnInstruction THEN ws
        ELSE IF binary = ZeroWord
             THEN (IF HasDash(l) THEN Append(ws, ZeroWord) ELSE ws)
        ELSE Append(ws, binary)

RECURSIVE EncodeRange(_, _, _, _, _)
\* pass 2 over lines lo..hi in order (the first half of them, then the second)
EncodeRange(file, lo, hi, ws, tab) ==
    IF lo > hi THEN ws
    ELSE IF lo = hi THEN EncodeLine(ws, file[lo], tab)
    ELSE CHOOSE q \in
           {EncodeRange(file, ((lo + hi) \div 2) + 1, hi, w, tab) :
              w \in {EncodeRange(file, lo, (lo + hi) \div 2, ws, tab)}} : TRUE

secondPass(file, i, ws, tab) == EncodeRange(file, i, Len(file), ws, tab)

----------------------------------------------------------------------------
(* The pipeline: IR file -> assembly file -> binary file *)

\* IR lines as the generator (src/codegen.c) writes them
IRLines ==
    { IRLine("allocaMemVar", "f", "x", "", ""),
      IRLine("funInicio", "f", "", "", ""),
      IRLine("funFim", "f", "", "", ""),
      IRLine("funInicio", "main", "", "", ""),
      IRLine("funFim", "main", "", "", ""),
      IRLine("storeVar", "t0", "x", "f", ""),
      IRLine("add", "a", "t0", "t1", ""),
      IRLine("label_op", "L0", "", "", ""),
      IRLine("GLOBAL_ARRAY", "a", "10", "", ""),
      IRLine("GLOBAL", "g", "__", "__", "__") }

NoLine == Line("none", -1, "", << >>, "")

MAX_TEMPORARIES == 128

\* the symbol table and what build_symbol_table reports: hashTable lists the
\* records, newest first; listing holds the semantic errors printed
SymtabIdle == [hashTable |-> << >>, location |-> 0, Error |-> FALSE, listing |-> << >>]

\* the generator's statics for one function: tree is the function declaration
\* being lowered, todo the statements of its body not yet visited, stage the
\* position in the function pass of codeGen; log is the history of the
\* temporary pool: allocations, releases, and reads by emitted lines;
\* temp_pool is the set of the indices whose in_use flag is set
GenIdle ==
    [ tree               |-> [name |-> "", params |-> << >>, decls |-> << >>, body |-> << >>],
      func               |-> "",
      param_list         |-> << >>,
      todo               |-> << >>,
      temp_pool          |-> {},
      labelCount         |-> 0,
      instruction_buffer |-> << >>,
      outputFile         |-> << >>,
      symtab             |-> SymtabIdle,
      log                |-> << >>,
      stage              |-> "idle" ]

PipeIdle ==
    /\ phase = "off" /\ ir = << >> /\ em = initializeContext /\ asm = << >>
    /\ labels = << >> /\ pass1_pc = 0 /\ words = << >>
    /\ gen = GenIdle

MachIdle ==
    /\ mcfg = [P |-> 0, L |-> 0, code |-> << >>, var_offsets |-> << >>]
    /\ regs = << >> /\ mem = << >> /\ frames = << >> /\ mpc = 0

EncIdle ==
    /\ eline = NoLine /\ elabels = << >> /\ eword = ZeroWord /\ edone = FALSE

Init ==
    /\ phase = "emit" /\ ir = << >> /\ em = initializeContext /\ asm = << >>
    /\ labels = << >> /\ pass1_pc = 0 /\ words = << >>
    /\ gen = GenIdle
    /\ MachIdle
    /\ EncIdle

\* the IR loop of generateAssemblyFromIRImproved reads one more line
ProcessLine ==
    /\ phase = "emit"
    /\ Len(ir) < MaxIR
    /\ \E l \in IRLines :
          /\ ir' = Append(ir, l)
          /\ em' = processIRLine(em, l)
    /\ UNCHANGED <<phase, asm, labels, pass1_pc, words, gen>>
    /\ UNCHANGED <<machVars, encVars>>

\* end of the IR file: the entry jump is written, then the temporary file copied
FinishAssembly ==
    /\ phase = "emit"
    /\ phase' = "asm"
    /\ asm' = FixUp(em.out)
    /\ UNCHANGED <<ir, em, labels, pass1_pc, words, gen>>
    /\ UNCHANGED <<machVars, encVars>>

generateBinaryFromAssembly ==
    /\ phase = "asm"
    /\ phase' = "bin"
    /\ \E cl \in {collectLabels(asm, 1, [pc |-> 0, labels |-> << >>])} :
           /\ labels' = cl.labels
           /\ pass1_pc' = cl.pc
           /\ words' = secondPass(asm, 1, << >>, cl.labels)
    /\ UNCHANGED <<ir, em, asm, gen>>
    /\ UNCHANGED <<machVars, encVars>>

Next == ProcessLine \/ FinishAssembly \/ generateBinaryFromAssembly

Spec == Init /\ [][Next]_vars

----------------------------------------------------------------------------
(* Vocabulary of the properties *)

\* a real assembly line: neither a comment, nor a Func header, nor a label
IsReal(l) == l.t = "ins"

IsNumberedIns(l) == l.t = "ins" /\ l.n >= 0

IsNumberedComment(l) == l.t = "cmt" /\ l.n >= 0

RealLines(file) == Cardinality({i \in DOMAIN file : IsReal(file[i])})

HasNumberedIns(file) == \E i \in DOMAIN file : IsNumberedIns(file[i])

\* index of the last real line of the file, 0 if none
LastReal(file) ==
    IF \E i \in DOMAIN file : IsReal(file[i])
    THEN CHOOSE i \in DOMAIN file :
             IsReal(file[i]) /\ \A j \in DOMAIN file : IsReal(file[j]) => j <= i
    ELSE 0

CommentsBeforeLastReal(file) ==
    Cardinality({i \in DOMAIN file : IsNumberedComment(file[i]) /\ i < LastReal(file)})

\* index of the first numbered instruction after line i, 0 if none
RECURSIVE NextIns(_, _)
NextIns(file, i) ==
    IF i >= Len(file) THEN 0
    ELSE IF IsNumberedIns(file[i + 1]) THEN i + 1
    ELSE NextIns(file, i + 1)

\* position in the label table of the entry pass 1 made for line i
LabelSlot(file, i) ==
    Cardinality({j \in 1..i : file[j].t = "func" \/ HasColon(file[j])})

\* index of the first "Func main:" line, 0 if none
MainHeader(file) ==
    IF \E i \in DOMAIN file : file[i].t = "func" /\ file[i].mn = "main"
    THEN CHOOSE i \in DOMAIN file :
             /\ file[i].t = "func" /\ file[i].mn = "main"
             /\ \A j \in 1..(i - 1) : ~(file[j].t = "func" /\ file[j].mn = "main")
    ELSE 0

\* line i of the emitter's output lies in an open function: after a Func
\* header and not after that function's jr / halt
InOpenFunction(out, i) ==
    \E j \in 1..(i - 1) :
        /\ out[j].t = "func"
        /\ \A k \in (j + 1)..(i - 1) :
              ~(out[k].org = "epilogue" /\ out[k].mn \in {"jr", "halt"})

\* the prologue of the function that line i belongs to is complete before i
PrologueBefore(out, i) ==
    \E j \in 1..(i - 1) :
        /\ out[j].t = "func"
        /\ \A k \in (j + 1)..(i - 1) : out[k].t # "func"
        /\ j + 2 < i
        /\ out[j + 1].org = "prologue" /\ out[j + 1].mn = "addi"
        /\ out[j + 2].org = "prologue" /\ out[j + 2].mn = "sw"

\* the shape of the IR file the generator writes for a program that compiles:
\* global declarations, then closed functions, main last
RECURSIVE ValidFrom(_, _, _, _)
ValidFrom(f, i, open, seenFun) ==
    IF i > Len(f) THEN open = "" /\ seenFun = "main"
    ELSE LET l == f[i]
         IN  IF open = ""
             THEN CASE l.op \in {"GLOBAL_ARRAY", "GLOBAL"} -> seenFun = "" /\ ValidFrom(f, i + 1, "", seenFun)
                    [] l.op = "allocaMemVar" -> ValidFrom(f, i + 1, "", seenFun)
                    [] l.op = "funInicio" -> seenFun # "main" /\ ValidFrom(f, i + 1, l.a1, l.a1)
                    [] OTHER -> FALSE
             ELSE CASE l.op = "funFim" -> l.a1 = open /\ ValidFrom(f, i + 1, "", seenFun)
                    [] l.op \in {"funInicio", "allocaMemVar", "GLOBAL_ARRAY", "GLOBAL"} -> FALSE
                    [] OTHER -> ValidFrom(f, i + 1, open, seenFun)

ValidIR(f) == ValidFrom(f, 1, "", "")

----------------------------------------------------------------------------
(* Properties of the pipeline *)

\* C1: for every assembly file the emitter produces with at least one
\* numbered instruction, pass 1's address count (final pc + 1) equals the
\* number of words pass 2 emits, also when the last numbered line is a comment
C1_PassAlignment ==
    (phase = "bin" /\ HasNumberedIns(asm)) => pass1_pc + 1 = Len(words)

C3_LabelAgreement ==
    phase = "bin" =>
        \A i \in DOMAIN asm :
            (asm[i].t \in {"func", "lab"} /\ NextIns(asm, i) > 0) =>
                labels[LabelSlot(asm, i)].address = asm[NextIns(asm, i)].n

\* C5: no instruction emitted for a function body stores to offset 0 of r30
C5_SlotZeroKept ==
    \A i \in DOMAIN em.out :
        ~(/\ em.out[i].t = "ins" /\ em.out[i].org = "body" /\ em.out[i].mn = "sw"
          /\ em.out[i].ops[2] = Reg(30) /\ em.out[i].ops[3] = Imm(0))

\* C7: every instruction translated from an IR body line is emitted inside an
\* open function and after that function's complete prologue
C7_EntryBodyExit ==
    \A i \in DOMAIN em.out :
        (em.out[i].t = "ins" /\ em.out[i].org = "body") =>
            InOpenFunction(em.out, i) /\ PrologueBefore(em.out, i)

\* C8: slot zero of the final assembly file is an unconditional jump to the
\* index of the first numbered instruction after 'Func main:'
C8_EntryJump ==
    (phase \in {"asm", "bin"} /\ MainHeader(em.out) > 0
        /\ NextIns(em.out, MainHeader(em.out)) > 0) =>
        /\ asm[1].t = "ins" /\ asm[1].n = -1 /\ asm[1].mn = "j"
        /\ asm[1].ops = <<Imm(em.out[NextIns(em.out, MainHeader(em.out))].n)>>

C8_Witness ==
    /\ phase = "asm" /\ MainHeader(em.out) > 1
    /\ \E j \in 1..(MainHeader(em.out) - 1) : IsNumberedIns(em.out[j])
    /\ NextIns(em.out, MainHeader(em.out)) > 0

----------------------------------------------------------------------------
(* Execution of the code emitted for one recursive function f.               *)
(* The IR is laid out as the generator writes it: the locals' allocaMemVar   *)
(* lines, the parameters' allocaMemVar lines, funInicio, the body, funFim.   *)
(* The body reads every parameter, calls f itself under a guard with the     *)
(* literal arguments 1, 2, ..., and reads every parameter again.             *)

ParamName(i) == "p" \o ToString(i)
LocalName(i) == "x" \o ToString(i)
TempName(i) == "t" \o ToString(i)

\* values the outermost caller passes; the recursive call passes 1, 2, ...
\* memory starts zeroed, a value no argument has
ArgValues == {11, 12}

RECURSIVE EmitAll(_, _)
\* the read loop of generateAssemblyFromIRImproved: processIRLine on each line
\* in order (the first half of the lines, then the second)
EmitAll(s, irseq) ==
    IF Len(irseq) > 1
    THEN CHOOSE q \in
           {EmitAll(s1, SubSeq(irseq, (Len(irseq) \div 2) + 1, Len(irseq))) :
              s1 \in {EmitAll(s, SubSeq(irseq, 1, Len(irseq) \div 2))}} : TRUE
    ELSE IF irseq = << >> THEN s
    ELSE CHOOSE q \in {processIRLine(s, l) : l \in {irseq[1]}} : TRUE

ReadParams(P) == [i \in 1..P |-> IRLine("loadVar", "f", ParamName(i), TempName(i - 1), "")]

FunctionIR(P, L) ==
    [i \in 1..L |-> IRLine("allocaMemVar", "f", LocalName(i), "___", "")]
    \o [i \in 1..P |-> IRLine("allocaMemVar", "f", ParamName(i), "___", "")]
    \o <<IRLine("funInicio", "f", "___", "___", "")>>
    \o ReadParams(P)
    \o <<IRLine("bne", TempName(P), "L0", "___", "")>>
    \o [i \in 1..P |-> IRLine("param", ToString(i), "___", "___", "")]
    \o <<IRLine("call", "f", ToString(P), "___", ""),
         IRLine("label_op", "L0", "___", "___", "")>>
    \o ReadParams(P)
    \o <<IRLine("funFim", "f", "___", "___", "")>>

\* index of the first instruction of f: the one after its "Func f:" header
EntryPc(code) == NextIns(code, 1)

\* index of the first instruction after label name
LabelPc(code, name) ==
    NextIns(code, CHOOSE i \in DOMAIN code : code[i].t = "lab" /\ code[i].mn = name)

\* memory is large enough for MaxDepth + 1 frames above the caller's r30
MemTop == (MaxDepth + 3) * (MaxParams + MaxLocals + 1)

Load(m, a) == IF a \in DOMAIN m THEN m[a] ELSE 0

Store(m, a, v) == IF a \in DOMAIN m THEN [m EXCEPT ![a] = v] ELSE m @@ (a :> v)

Cur == mcfg.code[mpc]

At(mnemonic) == mpc > 0 /\ Cur.mn = mnemonic

Top == frames[Len(frames)]

InitRun ==
    /\ PipeIdle
    /\ EncIdle
    /\ \E P \in 0..MaxParams, L \in 0..MaxLocals :
         \E args \in [1..P -> ArgValues] :
            \E s \in {EmitAll(initializeContext, FunctionIR(P, L))} :
                /\ mcfg = [P |-> P, L |-> L, code |-> s.out, var_offsets |-> s.var_offsets]
                /\ regs = [r \in 0..63 |-> IF r \in 1..P THEN args[r] ELSE 0]
                /\ mem = [a \in 0..MemTop |-> 0]
                /\ frames = <<[args |-> args, sp |-> 0, ra |-> 0]>>
                /\ mpc = EntryPc(s.out)

\* ADDI RT, RS, IMMEDIATE
ExecAddi ==
    /\ At("addi")
    /\ regs' = [regs EXCEPT ![Cur.ops[1].n] = regs[Cur.ops[2].n] + Cur.ops[3].n]
    /\ mpc' = NextIns(mcfg.code, mpc)
    /\ UNCHANGED <<mcfg, mem, frames, pipeVars, encVars>>

\* SUBI RT, RS, IMMEDIATE
ExecSubi ==
    /\ At("subi")
    /\ regs' = [regs EXCEPT ![Cur.ops[1].n] = regs[Cur.ops[2].n] - Cur.ops[3].n]
    /\ mpc' = NextIns(mcfg.code, mpc)
    /\ UNCHANGED <<mcfg, mem, frames, pipeVars, encVars>>

\* SW RT, OFFSET(RS)
ExecSw ==
    /\ At("sw")
    /\ mem' = Store(mem, regs[Cur.ops[2].n] + Cur.ops[3].n, regs[Cur.ops[1].n])
    /\ mpc' = NextIns(mcfg.code, mpc)
    /\ UNCHANGED <<mcfg, regs, frames, pipeVars, encVars>>

\* LW RT, OFFSET(RS)
ExecLw ==
    /\ At("lw")
    /\ regs' = [regs EXCEPT ![Cur.ops[1].n] = Load(mem, regs[Cur.ops[2].n] + Cur.ops[3].n)]
    /\ mpc' = NextIns(mcfg.code, mpc)
    /\ UNCHANGED <<mcfg, mem, frames, pipeVars, encVars>>

\* BNE RS, RT, ADDRESS: the guard of the recursive call.  Its value depends on
\* data outside the model, so both outcomes are taken; the innermost
\* activation allowed always skips the call.
ExecBne ==
    /\ At("bne")
    /\ \E skip \in BOOLEAN :
          /\ Len(frames) > MaxDepth => skip
          /\ mpc' = IF skip THEN LabelPc(mcfg.code, Cur.ops[3].s)
                    ELSE NextIns(mcfg.code, mpc)
    /\ UNCHANGED <<mcfg, regs, mem, frames, pipeVars, encVars>>

\* JAL ADDRESS: r31 receives the return address
ExecJal ==
    /\ At("jal")
    /\ regs' = [regs EXCEPT ![31] = NextIns(mcfg.code, mpc)]
    /\ frames' = Append(frames, [args |-> [i \in 1..mcfg.P |-> regs[i]],
                                 sp |-> regs[30],
                                 ra |-> NextIns(mcfg.code, mpc)])
    /\ mpc' = EntryPc(mcfg.code)
    /\ UNCHANGED <<mcfg, mem, pipeVars, encVars>>

\* JR RS
ExecJr ==
    /\ At("jr")
    /\ mpc' = regs[Cur.ops[1].n]
    /\ frames' = SubSeq(frames, 1, Len(frames) - 1)
    /\ UNCHANGED <<mcfg, regs, mem, pipeVars, encVars>>

NextRun == ExecAddi \/ ExecSubi \/ ExecSw \/ ExecLw \/ ExecBne \/ ExecJal \/ ExecJr

SpecRun == InitRun /\ [][NextRun]_vars

\* the frame slot loadVar resolves for the i-th parameter's name
ParamSlot(i) ==
    LET offset == LookupOffset(mcfg.var_offsets, "f", ParamName(i), 1)
    IN  IF offset >= 0 THEN offset ELSE 0

\* the current activation is between its prologue and its epilogue
InBody == mpc > 0 /\ Cur.org = "body"

\* C4: after the prologue, and still after a recursive call has returned, the
\* frame slot loadVar resolves for the i-th parameter holds the value the
\* caller placed in the i-th argument register
C4_ParamSlots ==
    InBody => \A i \in 1..mcfg.P : Load(mem, regs[30] + ParamSlot(i)) = Top.args[i]

\* C6: when a non-entry function returns, r31 has been reloaded from slot 0
\* and r30 decremented by the amount its prologue added, 1 plus the number of
\* variables allocated to the function: r30 at return equals r30 at entry
C6_EpilogueInverse ==
    At("jr") =>
        /\ regs[30] = Top.sp
        /\ regs[31] = Top.ra
        /\ mcfg.code[mpc - 1].mn = "subi"
        /\ mcfg.code[mpc - 1].ops = <<Reg(30), Reg(30), Imm(1 + mcfg.P + mcfg.L)>>
        /\ mcfg.code[mpc - 2].mn = "lw"
        /\ mcfg.code[mpc - 2].ops = <<Reg(31), Reg(30), Imm(0)>>
        /\ mcfg.code[EntryPc(mcfg.code)].ops = <<Reg(30), Reg(30), Imm(1 + mcfg.P + mcfg.L)>>

C6_Witness ==
    /\ At("jr")
    /\ Len(frames) >= 2
    /\ mcfg.P + mcfg.L >= 3
    /\ regs[30] = Top.sp /\ Top.sp > 0

----------------------------------------------------------------------------
(* The encoder applied to one numbered assembly line *)

RegSample == {0, 4, 59, 63}
ImmSample == {0, 1, 70, 8191, 16383, 16384, -1, -8192}
ShamtSample == {0, 2, 255}
SymSample == {"L0", "L1", "f"}

RegToks == {Reg(r) : r \in RegSample}
ImmToks == {Imm(v) : v \in ImmSample}
SymToks == {Sym(n) : n \in SymSample}

\* the label table pass 1 hands to pass 2: one address below 64, two above
SampleLabels ==
    << [name |-> "f", address |-> 1],
       [name |-> "L0", address |-> 70],
       [name |-> "L1", address |-> 130] >>

AsmLine(mn, ops) == Line("ins", 1, mn, ops, "body")

\* operand shapes as the emitter writes them (src/assembly.c)
EncLines ==
    {AsmLine(m, <<a, b, c>>) : m \in {"add", "sub", "and", "or", "slt", "set"},
                               a \in RegToks, b \in RegToks, c \in RegToks}
    \cup {AsmLine("slt", <<a, b, Imm(1)>>) : a \in RegToks, b \in RegToks}
    \cup {AsmLine(m, <<a, b>>) : m \in {"mult", "div", "move"}, a \in RegToks, b \in RegToks}
    \cup {AsmLine(m, <<a>>) : m \in {"mfhi", "mflo", "jr", "jalr", "outputreg", "input"},
                              a \in RegToks}
    \cup {AsmLine(m, <<a, b, Imm(v)>>) : m \in {"sll", "srl"}, a \in RegToks, b \in RegToks,
                                         v \in ShamtSample}
    \cup {AsmLine(m, << >>) : m \in {"halt", "outputreset"}}
    \cup {AsmLine(m, <<a, b, c>>) : m \in {"addi", "subi", "andi", "ori", "lw", "sw"},
                                    a \in RegToks, b \in RegToks, c \in ImmToks}
    \cup {AsmLine(m, <<a, c>>) : m \in {"li", "la", "outputmem"},
                                 a \in RegToks, c \in ImmToks \cup SymToks}
    \cup {AsmLine(m, <<a, b, c>>) : m \in BranchMnemonics, a \in RegToks, b \in RegToks,
                                    c \in SymToks \cup {Imm(5), Imm(70)}}
    \cup {AsmLine(m, <<c>>) : m \in {"j", "jal"}, c \in SymToks \cup {Imm(5), Imm(70)}}

InitEnc ==
    /\ PipeIdle
    /\ MachIdle
    /\ eline \in EncLines
    /\ elabels = SampleLabels
    /\ eword = ZeroWord
    /\ edone = FALSE

\* pass 2 hands the line to parseInstruction
Encode ==
    /\ ~edone
    /\ eline # NoLine
    /\ eword' = parseInstruction(eline, elabels)
    /\ edone' = TRUE
    /\ UNCHANGED <<eline, elabels, pipeVars, machVars>>

NextEnc == Encode

SpecEnc == InitEnc /\ [][NextEnc]_vars

FormatOf(l) ==
    IF findInstruction(l.mn, 1) = 0 THEN "none"
    ELSE instructions[findInstruction(l.mn, 1)].format

OpcodeOf(l) == instructions[findInstruction(l.mn, 1)].opcode

\* the number an operand denotes: a register number, a literal, a label's address
OperandValue(tok) ==
    IF tok.k = "sym" THEN LabelAddress(elabels, tok.s, 1) ELSE tok.n

\* C9: an R-format word is opcode[31:26] rs[25:20] rt[19:14] rd[13:8]
\* shamt[7:0], and every operand written in the line is encoded in a field
C9_RFormat ==
    (edone /\ FormatOf(eline) = FORMAT_R) =>
        LET f == RFields(eline.mn, eline.ops, elabels)
        IN  /\ BitsOf(eword, 31, 26) = OpcodeOf(eline)
            /\ BitsOf(eword, 25, 20) = f.rs
            /\ BitsOf(eword, 19, 14) = f.rt
            /\ BitsOf(eword, 13, 8) = f.rd
            /\ BitsOf(eword, 7, 0) = f.shamt % 256
            /\ \A i \in DOMAIN eline.ops :
                  OperandValue(eline.ops[i]) \in
                      {BitsOf(eword, 25, 20), BitsOf(eword, 19, 14),
                       BitsOf(eword, 13, 8), BitsOf(eword, 7, 0)}

C11_JFormat ==
    (edone /\ FormatOf(eline) = FORMAT_J) =>
        /\ BitsOf(eword, 31, 26) = OpcodeOf(eline)
        /\ BitsOf(eword, 25, 6) = 0
        /\ BitsOf(eword, 5, 0) = OperandValue(eline.ops[1])

\* the instruction table entry printBinaryWithComments finds for an opcode:
\* the first entry whose opcode matches, 0 when there is none
findOpcode(opcode, i) ==
    IF \E k \in i..Len(instructions) : instructions[k].opcode = opcode
    THEN CHOOSE k \in i..Len(instructions) :
            /\ instructions[k].opcode = opcode
            /\ \A j \in i..(k - 1) : instructions[j].opcode # opcode
    ELSE 0

\* the mnemonic and the fields printBinaryWithComments extracts and renders
\* for a word: RS, RT, RD for FORMAT_R; RS, RT and ADDR (branches) or IMM for
\* FORMAT_I; ADDR for FORMAT_J
printBinaryWithComments(binary) ==
    LET opcode == BitsOf(binary, 31, 26)
        k == findOpcode(opcode, 1)
        rs == BitsOf(binary, 25, 20)
        rt == BitsOf(binary, 19, 14)
        rd == BitsOf(binary, 13, 8)
        immediate == BitsOf(binary, 13, 0)
        address_field == BitsOf(binary, 5, 0)
    IN  IF k = 0 THEN [mnemonic |-> "", fields |-> <<>>]
        ELSE [mnemonic |-> instructions[k].mnemonic,
              fields |->
                 CASE instructions[k].format = FORMAT_R ->
                        [f \in {"rs", "rt", "rd"} |->
                            IF f = "rs" THEN rs ELSE IF f = "rt" THEN rt ELSE rd]
                   [] instructions[k].format = FORMAT_I ->
                        IF instructions[k].mnemonic \in BranchMnemonics
                        THEN [f \in {"rs", "rt", "address"} |->
                                IF f = "rs" THEN rs
                                ELSE IF f = "rt" THEN rt ELSE address_field]
                        ELSE [f \in {"rs", "rt", "immediate"} |->
                                IF f = "rs" THEN rs
                                ELSE IF f = "rt" THEN rt ELSE immediate]
                   [] OTHER -> [f \in {"address"} |-> address_field]]

\* the operand syntax of each mnemonic, as the table's description column and
\* parseInstruction's cases give it
OperandRoles(m) ==
    CASE m \in {"add", "sub", "and", "or", "slt"} -> <<"rd", "rs", "rt">>
      [] m \in {"mult", "div"} -> <<"rs", "rt">>
      [] m = "move" -> <<"rd", "rs">>
      [] m \in {"mfhi", "mflo", "input"} -> <<"rd">>
      [] m \in {"jr", "jalr", "outputreg"} -> <<"rs">>
      [] m \in {"sll", "srl"} -> <<"rd", "rs", "shamt">>
      [] m \in {"addi", "subi", "andi", "ori", "lw", "sw"} -> <<"rt", "rs", "immediate">>
      [] m \in {"li", "la"} -> <<"rt", "immediate">>
      [] m \in BranchMnemonics -> <<"rs", "rt", "address">>
      [] m = "outputmem" -> <<"rs", "immediate">>
      [] m \in {"j", "jal"} -> <<"address">>
      [] OTHER -> <<>>

\* the operand is of the kind its position takes and its value fits the field
InFieldRange(role, tok) ==
    CASE role \in {"rs", "rt", "rd"} -> tok.k = "reg" /\ tok.n \in 0..63
      [] role = "shamt" -> OperandValue(tok) \in 0..255
      [] role = "immediate" -> OperandValue(tok) \in 0..8191
      [] OTHER -> OperandValue(tok) \in 0..63

OperandsInRange(l) ==
    /\ Len(l.ops) = Len(OperandRoles(l.mn))
    /\ \A i \in DOMAIN l.ops : InFieldRange(OperandRoles(l.mn)[i], l.ops[i])

\* C12: for every mnemonic of the table and operands within field range,
\* decoding the encoded word yields the original mnemonic and, for every
\* operand, the original value
C12_RoundTrip ==
    (edone /\ FormatOf(eline) # "none" /\ OperandsInRange(eline)) =>
        LET d == printBinaryWithComments(eword)
            roles == OperandRoles(eline.mn)
        IN  /\ d.mnemonic = eline.mn
            /\ \A i \in DOMAIN eline.ops :
                  /\ roles[i] \in DOMAIN d.fields
                  /\ d.fields[roles[i]] = OperandValue(eline.ops[i])

----------------------------------------------------------------------------
(* Unknown IR lines through both stages *)

\* the operations processIRLine has a case for
IROps ==
    {"allocaMemVar", "funInicio", "loadVar", "storeVar", "funFim", "param",
     "call", "move", "add", "sub", "mult", "div", "slt", "sgt", "slet", "sget",
     "sdt", "loadVet", "storeVet", "GLOBAL_ARRAY", "li", "set", "seq", "sne",
     "bne", "jump", "label_op"}

\* a line no case accepts: an opcode outside the chain, or a loadVar, storeVar
\* or funFim read while no function is open
UnknownOrMalformed(s, l) ==
    \/ l.op \notin IROps
    \/ l.op \in {"loadVar", "storeVar", "funFim"} /\ ~s.in_function

IsUnknownComment(l) == l.t = "cmt" /\ l.mn = "# Unknown IR:"

\* reading an unknown line appends exactly one numbered comment, after at most
\* a pending prologue, and the comment takes exactly one instruction index
C13_EmitStep ==
    (/\ phase = "emit" /\ phase' = "emit" /\ ir' # ir
     /\ UnknownOrMalformed(em, ir'[Len(ir')])) =>
        LET o == em'.out
            k == Len(o)
            b == Len(em.out)
        IN  /\ k > b
            /\ SubSeq(o, 1, b) = em.out
            /\ IsUnknownComment(o[k])
            /\ o[k].n = em'.instruction_count - 1
            /\ \A i \in (b + 1)..(k - 1) : o[i].org = "prologue"
            /\ em'.instruction_count =
                  em.instruction_count + Cardinality({i \in (b + 1)..k : o[i].n >= 0})

\* every numbered comment is one all-zero word at its own index, and Func
\* headers and labels produce no word
C13_Encoded ==
    phase = "bin" =>
        /\ \A i \in DOMAIN asm :
              IsNumberedComment(asm[i]) =>
                  /\ asm[i].n + 1 <= Len(words)
                  /\ words[asm[i].n + 1] = ZeroWord
        /\ Len(words) = Cardinality({i \in DOMAIN asm : asm[i].t \notin {"func", "lab"}})

\* C13: an unknown or malformed IR line is never dropped: it yields exactly one
\* numbered comment line that consumes exactly one instruction index, pass 2
\* encodes that line as exactly one all-zero word at the same address, and
\* Func headers and label-only lines produce no word
C13_UnknownKept == [](C13_Encoded) /\ [][C13_EmitStep]_vars

C13_Witness ==
    /\ phase = "bin"
    /\ \E j \in DOMAIN ir : ir[j].op = "GLOBAL"
    /\ \E i \in DOMAIN asm :
          /\ IsUnknownComment(asm[i])
          /\ i < LastReal(asm)
          /\ words[asm[i].n + 1] = ZeroWord
          /\ \E k \in DOMAIN asm : asm[k].t = "func" /\ k > i

----------------------------------------------------------------------------
(* IR generator: src/codegen.c *)

\* a TreeNode: child[k] is the list formed by the k-th child and its siblings,
\* empty for NULL
TreeNode(nodekind, kind, name, val, opr, c0, c1, c2) ==
    [nodekind |-> nodekind, kind |-> kind, name |-> name, val |-> val,
     opr |-> opr, child |-> <<c0, c1, c2>>]

ConstK(v) == TreeNode("ExpK", "ConstK", "", v, "", << >>, << >>, << >>)
IdK(name) == TreeNode("ExpK", "IdK", name, 0, "", << >>, << >>, << >>)
ElemK(name, index) == TreeNode("ExpK", "IdK", name, 0, "", <<index>>, << >>, << >>)
OpK(opr, l, r) == TreeNode("ExpK", "OpK", "", 0, opr, <<l>>, <<r>>, << >>)
CallK(name, args) == TreeNode("ExpK", "CallK", name, 0, "", args, << >>, << >>)
AssignK(lhs, rhs) == TreeNode("StmtK", "AssignK", "", 0, "", <<lhs>>, <<rhs>>, << >>)
IfK(cond, then, else) == TreeNode("StmtK", "IfK", "", 0, "", <<cond>>, then, else)
WhileK(cond, body) == TreeNode("StmtK", "WhileK", "", 0, "", <<cond>>, body, << >>)
ReturnK(e) == TreeNode("StmtK", "ReturnK", "", 0, "", e, << >>, << >>)

----------------------------------------------------------------------------
(* Semantic analysis: src/analyze.c, src/symtab.c *)

\* the record a bucket search for name stops at
FindRecord(st, name) ==
    IF \E i \in DOMAIN st.hashTable : st.hashTable[i].name = name
    THEN CHOOSE i \in DOMAIN st.hashTable :
            /\ st.hashTable[i].name = name
            /\ \A k \in 1..(i - 1) : st.hashTable[k].name # name
    ELSE 0

st_lookup(st, name) ==
    IF FindRecord(st, name) = 0 THEN -1 ELSE st.hashTable[FindRecord(st, name)].memloc

SemanticError(st, msg, name) ==
    [st EXCEPT !.Error = TRUE, !.listing = Append(@, [msg |-> msg, name |-> name])]

st_insert(st, name, opr, scope, idTypes) ==
    LET i == FindRecord(st, name)
    IN  IF i = 0 \/ (opr # 0 /\ st.hashTable[i].idTypes # "fun" /\ st.hashTable[i].scope # scope)
        THEN [st EXCEPT !.hashTable = <<[name |-> name, memloc |-> opr, idTypes |-> idTypes,
                                        scope |-> scope]>> \o @]
        ELSE IF st.hashTable[i].idTypes = "fun" /\ idTypes = "var"
        THEN SemanticError(st, "name used for a function declaration", name)
        ELSE IF st.hashTable[i].scope = scope /\ opr # 0
        THEN SemanticError(st, "multiple declarations", name)
        ELSE IF st.hashTable[i].scope # scope /\ st.hashTable[i].scope # "global"
        THEN IF \E k \in DOMAIN st.hashTable :
                    st.hashTable[k].name = name /\ st.hashTable[k].scope = "global"
             THEN st
             ELSE SemanticError(st, "undeclared variable", name)
        ELSE st

UndeclaredCall_NoBuiltins(st, name) ==
    st_lookup(st, name) = -1 \/ name \in {"input", "output"}

\* the test of insertNode on a call: the callee has no record and is neither
\* input nor output
UndeclaredCall(st, name) ==
    st_lookup(st, name) = -1 /\ name # "input" /\ name # "output"

\* insertNode on a statement or expression node within function scope; add is
\* the node's mark, set on the target of an assignment
insertNode(st, t, scope, add) ==
    CASE t.nodekind = "StmtK" /\ t.kind = "AssignK" ->
           IF st_lookup(st, t.child[1][1].name) = -1
           THEN SemanticError(st, "undeclared variable", t.child[1][1].name)
           ELSE st_insert(st, t.child[1][1].name, 0, scope, "var")
      [] t.nodekind = "ExpK" /\ t.kind = "IdK" ->
           IF add THEN st
           ELSE IF st_lookup(st, t.name) = -1
           THEN SemanticError(st, "undeclared variable", t.name)
           ELSE st_insert(st, t.name, 0, scope, "fun")
      [] t.nodekind = "ExpK" /\ t.kind = "CallK" ->
           IF UndeclaredCall(st, t.name)
           THEN SemanticError(st, "undeclared function", t.name)
           ELSE st_insert(st, t.name, 0, scope, "fun")
      [] OTHER -> st

RECURSIVE traverse(_, _, _, _)
\* traverse with insertNode before the children, over a node and its siblings;
\* {e : v \in {x}} names the table x once it is built, so that each step is
\* taken once
traverse(st, nodes, scope, add) ==
    IF Len(nodes) > 1
    THEN CHOOSE q \in
           {traverse(s1, SubSeq(nodes, (Len(nodes) \div 2) + 1, Len(nodes)), scope, FALSE) :
              s1 \in {traverse(st, SubSeq(nodes, 1, Len(nodes) \div 2), scope, add)}} : TRUE
    ELSE IF nodes = << >> THEN st
    ELSE CHOOSE q \in
           {CHOOSE q \in
              {CHOOSE q \in
                 {traverse(s2, nodes[1].child[3], scope, FALSE) :
                    s2 \in {traverse(s1, nodes[1].child[2], scope, FALSE)}} : TRUE :
                 s1 \in {traverse(insertNode(s, nodes[1], scope, add), nodes[1].child[1],
                                  scope,
                                  nodes[1].nodekind = "StmtK" /\ nodes[1].kind = "AssignK")}}
              : TRUE :
              s \in {st}} : TRUE

RECURSIVE InsertDecls(_, _, _)
\* insertNode on the variable declarations of a function
InsertDecls(st, decls, scope) ==
    IF decls = << >> THEN st
    ELSE CHOOSE q \in
           {InsertDecls([st_insert(s, decls[1].name, s.location, scope, "var")
                            EXCEPT !.location = @ + (IF decls[1].size > 0
                                                     THEN decls[1].size ELSE 1)],
                        Tail(decls), scope) : s \in {st}} : TRUE

\* insertNode on a function declaration
InsertFunction(st, name) ==
    IF st_lookup(st, name) = -1
    THEN [st_insert(st, name, st.location, "global", "fun") EXCEPT !.location = @ + 1]
    ELSE [st EXCEPT !.listing = Append(@, [msg |-> "multiple declarations", name |-> name])]

\* the table with input and output inserted as predefined functions
Predefined ==
    [st_insert([st_insert(SymtabIdle, "input", 0, "global", "fun") EXCEPT !.location = 1],
               "output", 1, "global", "fun") EXCEPT !.location = 2]

----------------------------------------------------------------------------
(* IR generator: the emitted lines *)

\* the operands an IR line reads, by the operand order the generator writes
SourceOperands(l) ==
    CASE l.op \in {"loadVar", "call", "jump", "label_op"} -> << >>
      [] l.op \in {"storeVar", "loadVet", "move", "param", "bne"} -> <<l.a1>>
      [] OTHER -> <<l.a1, l.a2>>

\* atoi(&temp_name[1])
TempNumber(name) ==
    IF name \in TempNames
    THEN CHOOSE i \in 0..(MAX_TEMPORARIES - 1) : TempName(i) = name
    ELSE 0

\* an entry of the pool's history: the temporary, whether its in_use flag was
\* set just before, and whether any flag of the pool was clear just before
PoolEvent(g, e, t) ==
    [e |-> e, t |-> t, was_in_use |-> TempNumber(t) \in g.temp_pool,
     free_existed |-> g.temp_pool # 0..(MAX_TEMPORARIES - 1)]

\* the temporaries a line reads, in the history
ReadEvents(g, l) ==
    LET src == SelectSeq(SourceOperands(l), StartsWithT)
    IN  [k \in 1..Len(src) |-> PoolEvent(g, "read", src[k])]

emit_buffered(g, l) ==
    [g EXCEPT !.instruction_buffer = Append(@, l), !.log = @ \o ReadEvents(g, l)]

\* fprintf(outputFile, ...): the line goes straight to the IR file
WriteFile(g, l) ==
    [g EXCEPT !.outputFile = Append(@, l), !.log = @ \o ReadEvents(g, l)]

\* index of the first temporary not in use, MAX_TEMPORARIES when all are
FirstFreeTemp(pool) ==
    IF \E k \in 0..(MAX_TEMPORARIES - 1) : k \notin pool
    THEN CHOOSE k \in 0..(MAX_TEMPORARIES - 1) :
            k \notin pool /\ \A j \in 0..(k - 1) : j \in pool
    ELSE MAX_TEMPORARIES

allocate_temp_register(g) ==
    LET i == FirstFreeTemp(g.temp_pool)
    IN  IF i < MAX_TEMPORARIES
        THEN [g |-> [g EXCEPT !.temp_pool = @ \cup {i},
                              !.log = Append(@, PoolEvent(g, "alloc", TempName(i)))],
              r |-> TempName(i)]
        ELSE [g |-> [g EXCEPT !.log = Append(@, PoolEvent(g, "alloc", "t0"))],
              r |-> "t0"]

release_temp_register(g, temp_name) ==
    IF temp_name = "" \/ ~StartsWithT(temp_name) THEN g
    ELSE [g EXCEPT !.temp_pool = @ \ {TempNumber(temp_name)},
                   !.log = Append(@, PoolEvent(g, "release", temp_name))]

newLabel(g) ==
    [g |-> [g EXCEPT !.labelCount = @ + 1], r |-> "L" \o ToString(g.labelCount)]

generate_load_var(g, scope, var_name) ==
    LET t == allocate_temp_register(g)
    IN  [g |-> emit_buffered(t.g, IRLine("loadVar", scope, var_name, t.r, "")), r |-> t.r]

generate_load_vet(g, base_reg) ==
    LET t == allocate_temp_register(g)
    IN  [g |-> emit_buffered(t.g, IRLine("loadVet", base_reg, t.r, "___", "")), r |-> t.r]

generate_store_var(g, temp_reg, var_name, scope) ==
    emit_buffered(g, IRLine("storeVar", temp_reg, var_name, scope, ""))

generate_store_vet(g, temp_reg, addr_reg) ==
    emit_buffered(g, IRLine("storeVet", temp_reg, addr_reg, "___", ""))

\* op_str of generate_expression_code (OpK)
OpString(opr) ==
    CASE opr = "MAIS" -> "add"   [] opr = "SUB" -> "sub"
      [] opr = "MULT" -> "mult"  [] opr = "DIV" -> "divisao"
      [] opr = "IGDAD" -> "set"  [] opr = "DIFER" -> "sdt"
      [] opr = "MAIIG" -> "sget" [] opr = "MENIG" -> "slet"
      [] opr = "MAIOR" -> "sgt"  [] opr = "MENOR" -> "slt"
      [] OTHER -> "add"

\* op_str of the guards of IfK and WhileK: any other operator becomes "set"
GuardOpString(opr) ==
    IF opr \in {"IGDAD", "DIFER", "MAIIG", "MENIG", "MAIOR", "MENOR"}
    THEN OpString(opr) ELSE "set"

\* In the operators below {e : v \in {x}} names the result x of a step v, so
\* that the step is taken once; CHOOSE takes the one element of that set.

\* array element: the tail of the IdK case once the index is in ix; the add line
\* is written to the file, not to the buffer
LoadElement(ix, scope, name) ==
    CHOOSE q \in
      {CHOOSE q \in
         {CHOOSE q \in
            {[g |-> release_temp_register(
                      release_temp_register(
                        release_temp_register(res.g, base.r), addr.r), ix.r),
              r |-> res.r] :
               res \in {generate_load_vet(
                          WriteFile(addr.g, IRLine("add", base.r, ix.r, addr.r, "")),
                          addr.r)}} : TRUE :
            addr \in {allocate_temp_register(base.g)}} : TRUE :
         base \in {generate_load_var(ix.g, scope, name)}} : TRUE

\* binary operator: the tail of the OpK case once both operands are evaluated
ApplyOperator(op_str, left, right) ==
    CHOOSE q \in
      {[g |-> release_temp_register(
                release_temp_register(
                  emit_buffered(res.g, IRLine(op_str, left.r, right.r, res.r, "")),
                  left.r), right.r),
        r |-> res.r] : res \in {allocate_temp_register(right.g)}} : TRUE

\* call: the call line and, unless the callee is output, the move of $rf into a
\* new temporary
CallLine(args, name) ==
    CHOOSE q \in
      {IF name # "output"
       THEN CHOOSE q \in
              {[g |-> emit_buffered(res.g, IRLine("move", "$rf", res.r, "___", "")),
                r |-> res.r] : res \in {allocate_temp_register(g1)}} : TRUE
       ELSE [g |-> g1, r |-> ""] :
         g1 \in {emit_buffered(args.g, IRLine("call", name, ToString(args.r),
                                              "___", ""))}} : TRUE

RECURSIVE generate_expression_code(_, _)
RECURSIVE GenerateArgs(_, _, _)

\* the argument loop of CallK: one param line per argument
GenerateArgs(g, args, arg_count) ==
    IF args = << >> THEN [g |-> g, r |-> arg_count]
    ELSE CHOOSE q \in
           {GenerateArgs(g1, Tail(args), arg_count + 1) :
              g1 \in {CHOOSE q \in
                        {release_temp_register(
                           emit_buffered(a.g, IRLine("param", a.r, "___", "___", "")),
                           a.r) : a \in {generate_expression_code(g, Head(args))}} : TRUE}}
           : TRUE

\* returns the generator state (g) and the name holding the value (r, "" for NULL)
generate_expression_code(g, tree) ==
    CASE tree.kind = "ConstK" -> [g |-> g, r |-> ToString(tree.val)]
      [] tree.kind = "IdK" ->
           IF tree.child[1] # << >>
           THEN CHOOSE q \in
                  {LoadElement(ix, g.func, tree.name) :
                     ix \in {generate_expression_code(g, tree.child[1][1])}} : TRUE
           ELSE generate_load_var(g, g.func, tree.name)
      [] tree.kind = "OpK" ->
           CHOOSE q \in
             {CHOOSE q \in
                {ApplyOperator(OpString(tree.opr), left, right) :
                   right \in {generate_expression_code(left.g, tree.child[2][1])}} : TRUE :
                left \in {generate_expression_code(g, tree.child[1][1])}} : TRUE
      [] tree.kind = "CallK" ->
           CHOOSE q \in
             {CallLine(args, tree.name) : args \in {GenerateArgs(g, tree.child[1], 0)}} : TRUE
      [] OTHER -> [g |-> g, r |-> ""]

\* relational guard: the comparison, the "bne cond label" and the releases once
\* both operands are evaluated
CompareAndBranch(op_str, op1, op2, label) ==
    CHOOSE q \in
      {release_temp_register(
         release_temp_register(
           release_temp_register(
             emit_buffered(
               emit_buffered(c.g, IRLine(op_str, op1.r, op2.r, c.r, "")),
               IRLine("bne", c.r, label, "___", "")),
             op1.r), op2.r), c.r) : c \in {allocate_temp_register(op2.g)}} : TRUE

\* the guard of IfK and WhileK followed by its "bne cond label"
GenerateGuard(g, cond, label) ==
    IF cond.kind = "OpK"
    THEN CHOOSE q \in
           {CHOOSE q \in
              {CompareAndBranch(GuardOpString(cond.opr), op1, op2, label) :
                 op2 \in {generate_expression_code(op1.g, cond.child[2][1])}} : TRUE :
              op1 \in {generate_expression_code(g, cond.child[1][1])}} : TRUE
    ELSE CHOOSE q \in
           {release_temp_register(
              emit_buffered(c.g, IRLine("bne", c.r, label, "___", "")), c.r) :
              c \in {generate_expression_code(g, cond)}} : TRUE

\* assignment to an array element: the tail of the AssignK case once the value
\* and the index are evaluated
StoreElement(val, ix, scope, name) ==
    CHOOSE q \in
      {CHOOSE q \in
         {release_temp_register(
            release_temp_register(
              release_temp_register(
                release_temp_register(
                  generate_store_vet(
                    emit_buffered(addr.g, IRLine("add", base.r, ix.r, addr.r, "")),
                    val.r, addr.r),
                  base.r), addr.r), ix.r), val.r) :
            addr \in {allocate_temp_register(base.g)}} : TRUE :
         base \in {generate_load_var(ix.g, scope, name)}} : TRUE

RECURSIVE generate_statement_code(_, _)
RECURSIVE GenerateBlock(_, _)

\* the sibling loops over a then, else or loop body: generate_code_single on each
GenerateBlock(g, stmts) ==
    IF stmts = << >> THEN g
    ELSE CHOOSE q \in
           {GenerateBlock(g1, Tail(stmts)) :
              g1 \in {generate_statement_code(g, Head(stmts))}} : TRUE

\* IfK once the guard and the then part are generated into g2: with an else
\* part, the jump over it, the first label, the else part, the second label
ElsePart(g2, label1, else_stmts) ==
    IF else_stmts # << >>
    THEN CHOOSE q \in
           {CHOOSE q \in
              {emit_buffered(g5, IRLine("label_op", newLabel(g2).r, "___", "___", "")) :
                 g5 \in {GenerateBlock(g4, else_stmts)}} : TRUE :
              g4 \in {emit_buffered(
                        emit_buffered(newLabel(g2).g,
                                      IRLine("jump", newLabel(g2).r, "___", "___", "")),
                        IRLine("label_op", label1, "___", "___", ""))}} : TRUE
    ELSE emit_buffered(g2, IRLine("label_op", label1, "___", "___", ""))

generate_statement_code(g, tree) ==
    CASE tree.kind = "AssignK" ->
           CHOOSE q \in
             {IF tree.child[1][1].kind = "IdK" /\ tree.child[1][1].child[1] # << >>
              THEN CHOOSE q \in
                     {StoreElement(val, ix, g.func, tree.child[1][1].name) :
                        ix \in {generate_expression_code(
                                  val.g, tree.child[1][1].child[1][1])}} : TRUE
              ELSE release_temp_register(
                     generate_store_var(val.g, val.r, tree.child[1][1].name, g.func),
                     val.r) :
                val \in {generate_expression_code(g, tree.child[2][1])}} : TRUE
      [] tree.kind = "IfK" ->
           CHOOSE q \in
             {CHOOSE q \in
                {ElsePart(g2, newLabel(g).r, tree.child[3]) :
                   g2 \in {GenerateBlock(g1, tree.child[2])}} : TRUE :
                g1 \in {GenerateGuard(newLabel(g).g, tree.child[1][1],
                                      newLabel(g).r)}} : TRUE
      [] tree.kind = "WhileK" ->
           CHOOSE q \in
             {CHOOSE q \in
                {emit_buffered(
                   emit_buffered(g3, IRLine("jump", newLabel(g).r, "___", "___", "")),
                   IRLine("label_op", newLabel(newLabel(g).g).r, "___", "___", "")) :
                   g3 \in {GenerateBlock(g2, tree.child[2])}} : TRUE :
                g2 \in {GenerateGuard(
                          emit_buffered(newLabel(newLabel(g).g).g,
                                        IRLine("label_op", newLabel(g).r, "___",
                                               "___", "")),
                          tree.child[1][1], newLabel(newLabel(g).g).r)}} : TRUE
      [] tree.kind = "ReturnK" ->
           IF tree.child[1] # << >>
           THEN CHOOSE q \in
                  {release_temp_register(
                     emit_buffered(val.g, IRLine("move", val.r, "$rf", "___", "")), val.r) :
                     val \in {generate_expression_code(g, tree.child[1][1])}} : TRUE
           ELSE g
      [] tree.kind = "CallK" -> generate_expression_code(g, tree).g
      [] OTHER -> g

----------------------------------------------------------------------------
(* One function through the generator, the emitter and the processor *)

\* longest execution followed
MaxSteps == 40

\* values the locals a and b hold when main starts
InputValues == {0, 1, 2}

FuncK(name, params, decls, body) ==
    [name |-> name, params |-> params, decls |-> decls, body |-> body]

\* int a; int b; int x; int v[3];  (size 0: a scalar)
MainDecls ==
    << [name |-> "a", size |-> 0], [name |-> "b", size |-> 0],
       [name |-> "x", size |-> 0], [name |-> "v", size |-> 3] >>

RelationalGuards == {OpK(o, IdK("a"), IdK("b")) : o \in {"MENOR", "MAIOR", "DIFER"}}

Guards == RelationalGuards \cup {IdK("a"), OpK("MENOR", ElemK("v", IdK("a")), IdK("b"))}

SetXA == AssignK(IdK("x"), IdK("a"))
SetXB == AssignK(IdK("x"), IdK("b"))
IncA == AssignK(IdK("a"), OpK("MAIS", IdK("a"), ConstK(1)))
StoreElem == AssignK(ElemK("v", IdK("a")), IdK("b"))
ReadElem == AssignK(IdK("x"), ElemK("v", IdK("a")))
ReadInput == AssignK(IdK("x"), CallK("input", << >>))
WriteOutput == CallK("output", <<IdK("x")>>)
EchoInput == CallK("output", <<CallK("input", << >>)>>)
SumAB == AssignK(IdK("x"), OpK("MAIS", IdK("a"), IdK("b")))
\* input(); once per temporary of the pool, then x = a + b;
ManyCalls == [i \in 1..MAX_TEMPORARIES |-> CallK("input", << >>)] \o <<SumAB>>
CallUndeclared == AssignK(IdK("x"), CallK("f", <<IdK("a")>>))

Bodies ==
    {<<IfK(g, <<SetXA>>, e)>> : g \in Guards, e \in {<< >>, <<SetXB>>}}
    \cup {<<WhileK(g, <<IncA>>)>> : g \in Guards}
    \cup {<<IfK(g, <<SetXA>>, <<SetXB>>), WhileK(g, <<IncA, IfK(g, <<SetXB>>, << >>)>>)>> :
             g \in RelationalGuards}
    \cup {<<WhileK(g, <<WhileK(g, <<IncA>>), SetXB>>)>> : g \in RelationalGuards}
    \cup {<<StoreElem>>, <<StoreElem, ReadElem>>, <<ReadInput, WriteOutput>>,
          <<WriteOutput>>, <<ReadElem, WriteOutput>>, <<ReturnK(<<IdK("a")>>)>>,
          <<EchoInput>>, <<CallUndeclared>>, <<CallUndeclared, ReadInput, WriteOutput>>,
          <<SumAB>>, ManyCalls}

Programs == {FuncK("main", << >>, MainDecls, b) : b \in Bodies}

InitGen ==
    /\ phase = "off" /\ ir = << >> /\ em = initializeContext /\ asm = << >>
    /\ labels = << >> /\ pass1_pc = 0 /\ words = << >>
    /\ \E prog \in Programs : gen = [GenIdle EXCEPT !.tree = prog, !.stage = "parsed"]
    /\ \E va \in InputValues, vb \in InputValues :
          mcfg = [P |-> 0, L |-> 0, code |-> << >>, var_offsets |-> << >>,
                  input |-> [a |-> va, b |-> vb], steps |-> 0]
    /\ regs = << >> /\ mem = << >> /\ frames = << >> /\ mpc = 0
    /\ EncIdle

\* the local declaration pass: one alloca line per declaration, written to the file
DeclLine(func, d) ==
    IF d.size > 0 THEN IRLine("allocaMemVet", func, d.name, ToString(d.size), "")
    ELSE IRLine("allocaMemVar", func, d.name, "___", "")

\* main: the symbol table is built from the syntax tree, then codeGen runs
\* whether or not a semantic error was reported
build_symbol_table ==
    /\ gen.stage = "parsed"
    /\ \E st \in {InsertDecls(InsertFunction(Predefined, gen.tree.name),
                               gen.tree.decls, gen.tree.name)} :
           gen' = [gen EXCEPT
                     !.symtab = traverse(st, gen.tree.body, gen.tree.name, FALSE),
                     !.stage = "idle"]
    /\ UNCHANGED <<phase, ir, em, asm, labels, pass1_pc, words, machVars, encVars>>

\* codeGen, function pass: the resets for a new function, the parameter list,
\* the local declaration pass
BeginFunction ==
    /\ gen.stage = "idle"
    /\ gen.tree.name # ""
    /\ gen' = [gen EXCEPT !.func = gen.tree.name,
                          !.param_list = gen.tree.params,
                          !.instruction_buffer = << >>,
                          !.labelCount = 0,
                          !.temp_pool = {},
                          !.outputFile = @ \o [i \in 1..Len(gen.tree.decls) |->
                                                  DeclLine(gen.tree.name, gen.tree.decls[i])],
                          !.todo = gen.tree.body,
                          !.stage = "body"]
    /\ UNCHANGED <<phase, ir, em, asm, labels, pass1_pc, words, machVars, encVars>>

\* codeGen, function pass: generate_code_single on the next statement of the body
GenerateStatement ==
    /\ gen.stage = "body"
    /\ gen.todo # << >>
    /\ gen' = [generate_statement_code(gen, Head(gen.todo)) EXCEPT !.todo = Tail(gen.todo)]
    /\ UNCHANGED <<phase, ir, em, asm, labels, pass1_pc, words, machVars, encVars>>

flush_function_buffer ==
    /\ gen.stage = "body"
    /\ gen.todo = << >>
    /\ gen' = [gen EXCEPT
                 !.outputFile =
                     @ \o [i \in 1..Len(gen.param_list) |->
                              IRLine("allocaMemVar", gen.func, gen.param_list[i], "___", "")]
                       \o <<IRLine("funInicio", gen.func, "___", "___", "")>>
                       \o gen.instruction_buffer
                       \o <<IRLine("funFim", gen.func, "___", "___", "")>>,
                 !.instruction_buffer = << >>,
                 !.param_list = << >>,
                 !.labelCount = 0,
                 !.stage = "flushed"]
    /\ UNCHANGED <<phase, ir, em, asm, labels, pass1_pc, words, machVars, encVars>>

\* address of a local of main once the prologue has run from r30 = 0
SlotAddress(vo, name) == (Len(vo) + 1) + LookupOffset(vo, "main", name, 1)

\* the emitter reads the whole IR file and writes the assembly file; the
\* processor starts at its first line with the inputs in the locals' slots
generateAssemblyFromIRImproved ==
    /\ gen.stage = "flushed"
    /\ phase = "off"
    /\ \E s \in {EmitAll(initializeContext, gen.outputFile)} :
           /\ ir' = gen.outputFile
           /\ em' = s
           /\ asm' = FixUp(s.out)
           /\ mcfg' = [mcfg EXCEPT !.code = FixUp(s.out), !.var_offsets = s.var_offsets]
           /\ mem' = (SlotAddress(s.var_offsets, "a") :> mcfg.input.a)
                     @@ (SlotAddress(s.var_offsets, "b") :> mcfg.input.b)
    /\ phase' = "asm"
    /\ regs' = [r \in 0..63 |-> 0]
    /\ mpc' = 1
    /\ UNCHANGED <<labels, pass1_pc, words, gen, frames, encVars>>

\* index of the line carrying instruction number n
LineOf(code, n) == CHOOSE i \in DOMAIN code : code[i].t = "ins" /\ code[i].n = n

\* where a jump or branch operand leads: a label's next instruction, or the
\* instruction with the given number
TargetPc(code, tok) ==
    IF tok.k = "sym" THEN LabelPc(code, tok.s) ELSE LineOf(code, tok.n)

\* the register an operand selects in the encoded word: parseRegister
RegVal(rg, tok) == rg[parseRegister(tok)]

\* r0 is always zero
SetReg(rg, d, v) == IF d = 0 THEN rg ELSE [rg EXCEPT ![d] = v]

Executable ==
    {"add", "sub", "slt", "move", "addi", "subi", "andi", "li", "sll", "lw", "sw",
     "bne", "j", "input", "outputreg"}

\* one instruction of the processor, by the meaning of its mnemonic
\* (InstructionType in src/assembly.h, operand order of the encoder's table)
Execute ==
    /\ phase = "asm"
    /\ gen.stage = "flushed"
    /\ mpc > 0
    /\ mcfg.steps < MaxSteps
    /\ Cur.mn \in Executable
    /\ LET o == Cur.ops
           m == Cur.mn
           next == NextIns(mcfg.code, mpc)
       IN  /\ regs' =
                 CASE m = "add"  -> SetReg(regs, o[1].n, RegVal(regs, o[2]) + RegVal(regs, o[3]))
                   [] m = "sub"  -> SetReg(regs, o[1].n, RegVal(regs, o[2]) - RegVal(regs, o[3]))
                   [] m = "slt"  -> SetReg(regs, o[1].n,
                                       IF RegVal(regs, o[2]) < RegVal(regs, o[3]) THEN 1 ELSE 0)
                   [] m = "move" -> SetReg(regs, o[1].n, RegVal(regs, o[2]))
                   [] m = "addi" -> SetReg(regs, o[1].n, RegVal(regs, o[2]) + o[3].n)
                   [] m = "subi" -> SetReg(regs, o[1].n, RegVal(regs, o[2]) - o[3].n)
                   [] m = "andi" -> SetReg(regs, o[1].n, RegVal(regs, o[2]) % (o[3].n + 1))
                   [] m = "li"   -> SetReg(regs, o[1].n, o[2].n)
                   [] m = "sll"  -> SetReg(regs, o[1].n, RegVal(regs, o[2]) * (2 ^ o[3].n))
                   [] m = "lw"   -> SetReg(regs, o[1].n, Load(mem, RegVal(regs, o[2]) + o[3].n))
                   [] m = "input" -> SetReg(regs, o[1].n, mcfg.input.a)
                   [] OTHER -> regs
           /\ mem' = IF m = "sw"
                     THEN Store(mem, RegVal(regs, o[2]) + o[3].n, RegVal(regs, o[1]))
                     ELSE mem
           /\ mpc' = CASE m = "bne" -> IF RegVal(regs, o[1]) # RegVal(regs, o[2])
                                       THEN TargetPc(mcfg.code, o[3]) ELSE next
                       [] m = "j"   -> TargetPc(mcfg.code, o[1])
                       [] OTHER -> next
    /\ mcfg' = [mcfg EXCEPT !.steps = @ + 1]
    /\ UNCHANGED <<frames, pipeVars, encVars>>

NextGen ==
    \/ build_symbol_table
    \/ BeginFunction
    \/ GenerateStatement
    \/ flush_function_buffer
    \/ generateAssemblyFromIRImproved
    \/ Execute

SpecGen == InitGen /\ [][NextGen]_vars

----------------------------------------------------------------------------
(* Conditional statements *)

\* the value of a relational guard over the locals a and b
GuardHolds(cond, m, vo) ==
    LET a == Load(m, SlotAddress(vo, "a"))
        b == Load(m, SlotAddress(vo, "b"))
    IN  CASE cond.opr = "MENOR" -> a < b
          [] cond.opr = "MAIOR" -> a > b
          [] cond.opr = "DIFER" -> a # b
          [] OTHER -> FALSE

\* the function starts with an if statement whose guard compares a and b
StartsWithIf ==
    /\ gen.tree.body # << >>
    /\ gen.tree.body[1].kind = "IfK"
    /\ gen.tree.body[1].child[1][1] \in RelationalGuards

\* the processor is at the branch that follows the guard of that if statement
AtIfBranch ==
    /\ phase = "asm"
    /\ StartsWithIf
    /\ mpc > 0
    /\ Cur.mn = "bne"
    /\ Cur.ops[3] = Sym("L0")

\* index of the first line of the IR file with this operation and first operand
IRIndex(file, op, a1) == CHOOSE i \in DOMAIN file : file[i].op = op /\ file[i].a1 = a1

C14_Step ==
    (AtIfBranch /\ mcfg'.steps = mcfg.steps + 1)
    => /\ RegVal(regs, Cur.ops[1]) \in {0, 1}
       /\ (mpc' = TargetPc(mcfg.code, Cur.ops[3]))
             <=> ~GuardHolds(gen.tree.body[1].child[1][1], mem, mcfg.var_offsets)

C14_JumpOverElse ==
    (gen.stage = "flushed" /\ StartsWithIf /\ gen.tree.body[1].child[3] # << >>)
    => /\ \E i \in DOMAIN gen.outputFile :
              /\ gen.outputFile[i] = IRLine("bne", gen.outputFile[i].a1, "L0", "___", "")
              /\ i < IRIndex(gen.outputFile, "jump", "L1")
       /\ IRIndex(gen.outputFile, "label_op", "L0") = IRIndex(gen.outputFile, "jump", "L1") + 1
       /\ IRIndex(gen.outputFile, "label_op", "L1") > IRIndex(gen.outputFile, "label_op", "L0")

\* C14: the branch after the guard of an if statement tests a temporary holding
\* 0 or 1 and is taken, skipping the then block, exactly when the guard is
\* false; in a two-armed if a jump over the else arm ends the then block
C14_IfBranch == [](C14_JumpOverElse) /\ [][C14_Step]_vars

----------------------------------------------------------------------------
(* Loops *)

RECURSIVE CountWhile(_)
\* number of while statements in a statement list, nested ones included
CountWhile(stmts) ==
    IF Len(stmts) > 1
    THEN CountWhile(SubSeq(stmts, 1, Len(stmts) \div 2))
         + CountWhile(SubSeq(stmts, (Len(stmts) \div 2) + 1, Len(stmts)))
    ELSE IF stmts = << >> THEN 0
    ELSE (IF stmts[1].kind = "WhileK" THEN 1 ELSE 0)
         + (IF stmts[1].nodekind = "StmtK" /\ stmts[1].kind \in {"IfK", "WhileK"}
            THEN CountWhile(stmts[1].child[2]) + CountWhile(stmts[1].child[3]) ELSE 0)

\* operations that only compute a value into a temporary
GuardOps == {"loadVar", "loadVet", "add", "sub", "slt", "sgt", "slet", "sget", "set", "sdt"}

\* the jumps of the file that lead back to an earlier label: one per loop
BackJumps(file) ==
    {j \in DOMAIN file :
        /\ file[j].op = "jump"
        /\ \E t \in 1..(j - 1) : file[t].op = "label_op" /\ file[t].a1 = file[j].a1}

\* the loop closed by the jump at j: top label at t, guarded branch at b, then
\* the body, the jump to the top label and the bottom label
LoopShape(file, j) ==
    /\ j < Len(file)
    /\ file[j + 1].op = "label_op"
    /\ file[j + 1].a1 # file[j].a1
    /\ \E t \in 1..(j - 1), b \in 1..(j - 1) :
          /\ file[t].op = "label_op" /\ file[t].a1 = file[j].a1
          /\ t < b
          /\ file[b].op = "bne" /\ file[b].a2 = file[j + 1].a1
          /\ \A k \in (t + 1)..(b - 1) :
                /\ file[k].op \in GuardOps
                /\ file[k].op = "loadVet" =>
                      \E m \in (t + 1)..(k - 1) :
                          file[m].op = "add" /\ file[m].a3 = file[k].a1
          /\ \A k \in (b + 1)..(j - 1) : file[k].op = "bne" => file[k].a2 # file[j + 1].a1

\* no two label lines of the file carry the same label
LabelsDistinct(file) ==
    \A i \in DOMAIN file, k \in DOMAIN file :
        (file[i].op = "label_op" /\ file[k].op = "label_op" /\ i # k)
        => file[i].a1 # file[k].a1

\* C15: each while loop is written as top label, guard evaluation ending in a
\* branch to the bottom label, body, jump to the top label, bottom label, and
\* the labels of a function are pairwise distinct
C15_LoopLowering ==
    gen.stage = "flushed"
    => /\ Cardinality(BackJumps(gen.outputFile)) = CountWhile(gen.tree.body)
       /\ \A j \in BackJumps(gen.outputFile) : LoopShape(gen.outputFile, j)
       /\ LabelsDistinct(gen.outputFile)

----------------------------------------------------------------------------
(* Array stores *)

\* the function starts with the array store v[a] = b
StartsWithStore == gen.tree.body # << >> /\ gen.tree.body[1] = StoreElem

\* number of lines of the file with this operation
CountOp(file, op) == Cardinality({i \in DOMAIN file : file[i].op = op})

\* the generator's part: base + index into a temporary, then one storeVet whose
\* address operand is that temporary, and no store to v itself
StoreShape(file) ==
    /\ CountOp(file, "storeVet") = 1
    /\ \E i \in 1..(Len(file) - 1) :
          /\ file[i].op = "add"
          /\ StartsWithT(file[i].a3)
          /\ \E k \in 1..(i - 1) : file[k] = IRLine("loadVar", "main", "v", file[i].a1, "")
          /\ file[i + 1] = IRLine("storeVet", file[i + 1].a1, file[i].a3, "___", "")
    /\ \A i \in DOMAIN file : file[i].op = "storeVar" => file[i].a2 # "v"

\* the register holding the computed address: the destination of the last add
\* before line i that does not target a scratch register
AddressReg(code, i) ==
    LET adds == {k \in 1..(i - 1) :
                    code[k].t = "ins" /\ code[k].mn = "add" /\ code[k].ops[1].n \notin {57, 58}}
    IN  code[CHOOSE k \in adds : \A m \in adds : m <= k].ops[1].n

\* the processor is at the sw emitted for the storeVet
AtArrayStore ==
    /\ phase = "asm"
    /\ StartsWithStore
    /\ mpc > 0
    /\ Cur.mn = "sw"
    /\ Cur.ops[2] = Reg(57)

C16_Step ==
    (AtArrayStore /\ mcfg'.steps = mcfg.steps + 1)
    => mem' = Store(mem, regs[AddressReg(mcfg.code, mpc)], RegVal(regs, Cur.ops[1]))

\* C16: v[a] = b is written as base + index into a temporary followed by one
\* storeVet on that temporary, and the sw emitted for it writes to the address
\* the temporary holds
C16_ArrayStore ==
    [](gen.stage = "flushed" /\ StartsWithStore => StoreShape(gen.outputFile))
    /\ [][C16_Step]_vars

----------------------------------------------------------------------------
(* Built-in input and output *)

\* the emitter has just written the assembly file
JustEmitted == phase = "asm" /\ gen.stage = "flushed" /\ mcfg.steps = 0

RECURSIVE CountCalls(_, _)
\* number of call nodes in a sibling list, nested ones included, whose callee
\* is (builtin = TRUE) or is not (builtin = FALSE) input or output
CountCalls(nodes, builtin) ==
    IF Len(nodes) > 1
    THEN CountCalls(SubSeq(nodes, 1, Len(nodes) \div 2), builtin)
         + CountCalls(SubSeq(nodes, (Len(nodes) \div 2) + 1, Len(nodes)), builtin)
    ELSE IF nodes = << >> THEN 0
    ELSE (IF nodes[1].kind = "CallK" /\ ((nodes[1].name \in {"input", "output"}) <=> builtin)
          THEN 1 ELSE 0)
         + CountCalls(nodes[1].child[1], builtin) + CountCalls(nodes[1].child[2], builtin)
         + CountCalls(nodes[1].child[3], builtin)

\* number of instructions of the assembly file with one of these mnemonics
CountMn(code, mns) == Cardinality({i \in DOMAIN code : code[i].t = "ins" /\ code[i].mn \in mns})

\* C17: calls of input and output become input and outputreg instructions,
\* never a jal, and the analysis never reports input or output as an
\* undeclared function
C17_Builtins ==
    /\ \A i \in DOMAIN gen.symtab.listing :
          gen.symtab.listing[i].msg = "undeclared function"
          => gen.symtab.listing[i].name \notin {"input", "output"}
    /\ (gen.stage # "parsed" /\ CountCalls(gen.tree.body, FALSE) = 0) => ~gen.symtab.Error
    /\ JustEmitted =>
          /\ CountMn(mcfg.code, {"input", "outputreg"}) = CountCalls(gen.tree.body, TRUE)
          /\ CountMn(mcfg.code, {"jal"}) = CountCalls(gen.tree.body, FALSE)
          /\ \A i \in DOMAIN mcfg.code :
                mcfg.code[i].mn = "jal" => mcfg.code[i].ops[1].s \notin {"input", "output"}
          /\ \A i \in DOMAIN ir :
                ir[i].op = "call" /\ ir[i].a1 \in {"input", "output"}
                => \E k \in DOMAIN mcfg.code :
                      /\ mcfg.code[k].mn = (IF ir[i].a1 = "input" THEN "input" ELSE "outputreg")
                      /\ CountMn(SubSeq(mcfg.code, 1, k), {"input", "outputreg", "jal"})
                            = Cardinality({m \in 1..i : ir[m].op = "call"})

\* a program that reads with input and writes with output was analysed
\* without error, and the processor has reached its outputreg
C17_Witness ==
    /\ phase = "asm"
    /\ gen.tree.body = <<ReadInput, WriteOutput>>
    /\ ~gen.symtab.Error
    /\ mpc > 0
    /\ Cur.mn = "outputreg"
    /\ \E i \in 1..(mpc - 1) : mcfg.code[i].mn = "input"

----------------------------------------------------------------------------
(* Temporaries of the generator *)

\* C18: every temporary an emitted line reads has its in_use flag set (it was
\* allocated and not released since), and allocate_temp_register returns a
\* temporary whose flag was set only when no flag of the pool was clear
C18_TempDiscipline ==
    \A k \in DOMAIN gen.log :
        /\ gen.log[k].e = "read" => gen.log[k].was_in_use
        /\ (gen.log[k].e = "alloc" /\ gen.log[k].free_existed) => ~gen.log[k].was_in_use

----------------------------------------------------------------------------
(* Register bindings of the emitter *)

\* the register reg_map binds name to, -1 when it binds none
BoundReg(s, name) ==
    LET i == FindMapped(s.reg_map, name, 1)
    IN  IF i > 0 THEN s.reg_map[i].phys_reg ELSE -1

\* the names a line mentions
Mentioned(l) == {l.a1, l.a2, l.a3, l.a4} \ {"", "___"}

\* line l is a loadVar, inside a function, whose destination is the temporary name
LoadsTemp(s, l, name) ==
    l.op = "loadVar" /\ s.in_function /\ l.a3 = name /\ StartsWithT(name)

\* translating l from context s to context s1 keeps the register of every name
\* that l mentions and s binds
KeepsAll(s, l, s1) ==
    \A name \in Mentioned(l) :
        BoundReg(s, name) >= 0 => BoundReg(s1, name) = BoundReg(s, name)

\* the same, except for the temporary a loadVar loads into: that one is bound
\* anew, to the next register of the rotation
KeepsOrReloads(s, l, s1) ==
    \A name \in Mentioned(l) :
        BoundReg(s, name) >= 0 =>
            IF LoadsTemp(s, l, name)
            THEN /\ BoundReg(s1, name) = SkipReserved(s.next_temp_reg)
                 /\ BoundReg(s1, name) # BoundReg(s, name)
            ELSE BoundReg(s1, name) = BoundReg(s, name)

\* the record of a run of the emitter: the context reached (s), whether every
\* line so far kept the bindings (kept), whether every line kept them or
\* reloaded a temporary (reloaded), and the number of reloads (n)
ReplayStart == [s |-> initializeContext, kept |-> TRUE, reloaded |-> TRUE, n |-> 0]

\* the record after the emitter has translated line l
ReplayLine(acc, l) ==
    CHOOSE q \in
      {[s |-> s1,
        kept |-> acc.kept /\ KeepsAll(acc.s, l, s1),
        reloaded |-> acc.reloaded /\ KeepsOrReloads(acc.s, l, s1),
        n |-> acc.n + (IF LoadsTemp(acc.s, l, l.a3) /\ BoundReg(acc.s, l.a3) >= 0
                       THEN 1 ELSE 0)] : s1 \in {processIRLine(acc.s, l)}} : TRUE

RECURSIVE Replay(_, _)
\* the emitter run line by line over irseq (the first half of the lines, then
\* the second)
Replay(acc, irseq) ==
    IF Len(irseq) > 1
    THEN CHOOSE q \in
           {Replay(a, SubSeq(irseq, (Len(irseq) \div 2) + 1, Len(irseq))) :
              a \in {Replay(acc, SubSeq(irseq, 1, Len(irseq) \div 2))}} : TRUE
    ELSE IF irseq = << >> THEN acc
    ELSE CHOOSE q \in {ReplayLine(acc, l) : l \in {irseq[1]}} : TRUE

NonAllocatable == {0, 1, 2, 3, 28, 30, 31} \cup (57..63)

\* C20: every register allocateRegister has bound to a name of the function
\* lies outside the reserved registers
C20_NonReserved ==
    phase = "asm" =>
        \A i \in DOMAIN em.reg_map :
            em.reg_map[i].valid => em.reg_map[i].phys_reg \notin NonAllocatable

----------------------------------------------------------------------------
(* What the emitter reports while it translates *)

Message(level, text) == [level |-> level, text |-> text]

\* the lines processIRLine and allocateRegister print besides the assembly
\* while line l is translated from context s: "DEBUG: ..." lines on stdout,
\* one per printf of the case taken
Messages(s, l) ==
    <<Message("DEBUG", "IR line received")>>
    \o (IF l.op = "funInicio"
        THEN [k \in 1..Len(FlushPending(s.pending_allocas, l.a1, << >>)) |->
                 Message("DEBUG", "allocaMemVar assigned offset (from pending)")]
        ELSE << >>)
    \o (IF PrologueDue(s, l)
        THEN <<Message("DEBUG", "var_offsets before prologue"),
               Message("DEBUG", "Prologue, stack size"),
               Message("DEBUG", "After prologue, reparsed")>>
        ELSE << >>)
    \o (CASE l.op = "loadVar" /\ s.in_function ->
               <<Message("DEBUG", "loadVar"), Message("DEBUG", "loadVar offset"),
                 Message("DEBUG", "loadVar allocated register")>>
          [] l.op = "storeVar" /\ s.in_function ->
               <<Message("DEBUG", "storeVar"), Message("DEBUG", "storeVar offset")>>
          [] l.op = "param" ->
               <<Message("DEBUG", "param instruction"),
                 IF isImmediate(l.a1) THEN Message("DEBUG", "param immediate value")
                 ELSE Message("DEBUG", "param variable/register")>>
          [] l.op = "move" -> <<Message("DEBUG", "Moved value")>>
          [] l.op = "set"  -> <<Message("DEBUG", "Processing set instruction")>>
          [] l.op = "seq"  -> <<Message("DEBUG", "Processing seq instruction")>>
          [] OTHER -> << >>)

Warnings(s, l) == SelectSeq(Messages(s, l), LAMBDA m : m.level = "Warning")

\* translating l from s to s1 bound a name it mentions to a register that a
\* valid reg_map entry still binds to another name
ReusesBoundRegister(s, l, s1) ==
    \E name \in Mentioned(l) :
        /\ BoundReg(s1, name) >= 0
        /\ BoundReg(s1, name) # BoundReg(s, name)
        /\ \E j \in DOMAIN s1.reg_map :
              /\ s1.reg_map[j].valid
              /\ s1.reg_map[j].ir_name # name
              /\ s1.reg_map[j].phys_reg = BoundReg(s1, name)


\* the record of a run of the emitter over an IR file: the context reached
\* (s), the number of lines whose translation reused a register still bound
\* to another name (reused), and how many of those printed no warning (silent)
AuditStart == [s |-> initializeContext, reused |-> 0, silent |-> 0]

\* the record after the emitter has translated line l
AuditLine(acc, l) ==
    CHOOSE q \in
      {[s |-> s1,
        reused |-> acc.reused + (IF ReusesBoundRegister(acc.s, l, s1) THEN 1 ELSE 0),
        silent |-> acc.silent + (IF ReusesBoundRegister(acc.s, l, s1)
                                    /\ Warnings(acc.s, l) = << >> THEN 1 ELSE 0)] :
         s1 \in {processIRLine(acc.s, l)}} : TRUE

RECURSIVE Audit(_, _)
\* the emitter run line by line over irseq (the first half of the lines, then
\* the second)
Audit(acc, irseq) ==
    IF Len(irseq) > 1
    THEN CHOOSE q \in
           {Audit(a, SubSeq(irseq, (Len(irseq) \div 2) + 1, Len(irseq))) :
              a \in {Audit(acc, SubSeq(irseq, 1, Len(irseq) \div 2))}} : TRUE
    ELSE IF irseq = << >> THEN acc
    ELSE CHOOSE q \in {AuditLine(acc, l) : l \in {irseq[1]}} : TRUE

\* C21: whenever the allocator, its pool exhausted, gives a name a register
\* that is still bound to another name, a warning is printed
C21_WrapWarned == JustEmitted => Audit(AuditStart, ir).silent = 0


----------------------------------------------------------------------------
(* A whole program: codeGen over several functions, the validation of the   *)
(* IR file, the emitter and the encoder                                     *)

\* strstr(line, text) for the texts validate_ir_file looks for.  None of them
\* is part of a longer token of the IR alphabet, so a line contains one of
\* them exactly when one of its fields is that text.
HasText(l, texts) == {l.op, l.a1, l.a2, l.a3, l.a4} \cap texts # {}

\* validate_ir_file: the number of errors it returns for the IR file
validate_ir_file(file) ==
    LET func_begins == Cardinality({i \in DOMAIN file : HasText(file[i], {"FUNC_BEGIN"})})
        func_ends   == Cardinality({i \in DOMAIN file : HasText(file[i], {"END_FUNC"})})
        suspect     == Cardinality({i \in DOMAIN file :
                                       HasText(file[i], {"t-1", "L-1", "NULL"})})
        malformed   == Cardinality({i \in DOMAIN file :
                                       HasText(file[i], {"OP_UNKNOWN", "BR_UNKNOWN"})})
    IN  suspect + malformed + (IF func_begins # func_ends THEN 1 ELSE 0)

\* int u; int v; int x;
ProgDecls ==
    << [name |-> "a", size |-> 0], [name |-> "b", size |-> 0], [name |-> "x", size |-> 0] >>

\* int g(int u) { if (u < 1) return u; return u - 1; }
GFun ==
    FuncK("g", <<"u">>, << >>,
          << IfK(OpK("MENOR", IdK("u"), ConstK(1)), <<ReturnK(<<IdK("u")>>)>>, << >>),
             ReturnK(<<OpK("SUB", IdK("u"), ConstK(1))>>) >>)

\* int f(int u, int v) { while (u < v) { return u; } return v; }
FFun ==
    FuncK("f", <<"u", "v">>, << >>,
          << WhileK(OpK("MENOR", IdK("u"), IdK("v")), <<ReturnK(<<IdK("u")>>)>>),
             ReturnK(<<IdK("v")>>) >>)

\* bodies of main over the locals a, b, x
MainBodies ==
    { << AssignK(IdK("x"), CallK("f", <<IdK("a"), CallK("g", <<IdK("b")>>)>>)), WriteOutput >>,
      << AssignK(IdK("x"), CallK("f", <<IdK("a"), IdK("b")>>)),
         IfK(OpK("MENOR", IdK("a"), IdK("b")), <<SetXA>>, << >>) >>,
      << AssignK(IdK("x"), CallK("g", <<IdK("a")>>)),
         WhileK(OpK("MENOR", IdK("a"), IdK("b")), <<IncA>>) >>,
      << AssignK(IdK("x"), CallK("g", <<ConstK(2)>>)),
         IfK(OpK("MENOR", IdK("a"), IdK("b")), <<SetXA>>, <<SetXB>>) >>,
      << AssignK(IdK("x"), OpK("SUB", IdK("a"), ConstK(1))), WriteOutput >>,
      << AssignK(IdK("x"), OpK("MAIS", ConstK(1), IdK("a"))),
         IfK(OpK("MENIG", IdK("a"), IdK("b")), <<SetXA>>, << >>) >>,
      << IncA, WriteOutput >> }

\* the programs: the functions in declaration order, main last
Units ==
    {<<FuncK("main", << >>, ProgDecls, b)>> : b \in MainBodies}
    \cup {<<c, FuncK("main", << >>, ProgDecls, b)>> : c \in {GFun, FFun}, b \in MainBodies}
    \cup {<<GFun, FFun, FuncK("main", << >>, ProgDecls, b)>> : b \in MainBodies}

InitProg ==
    /\ phase = "off" /\ ir = << >> /\ em = initializeContext /\ asm = << >>
    /\ labels = << >> /\ pass1_pc = 0 /\ words = << >>
    /\ \E u \in Units :
          /\ gen = [GenIdle EXCEPT !.tree = Head(u), !.stage = "idle"]
          /\ mcfg = [P |-> 0, L |-> 0, code |-> << >>, var_offsets |-> << >>,
                     rest |-> Tail(u), validation_errors |-> -1]
    /\ regs = << >> /\ mem = << >> /\ frames = << >> /\ mpc = 0
    /\ EncIdle

\* codeGen, function pass: the loop goes on to the next function declaration
NextFunction ==
    /\ gen.stage = "flushed"
    /\ phase = "off"
    /\ mcfg.rest # << >>
    /\ gen' = [gen EXCEPT !.tree = Head(mcfg.rest), !.stage = "idle"]
    /\ mcfg' = [mcfg EXCEPT !.rest = Tail(@)]
    /\ UNCHANGED <<phase, ir, em, asm, labels, pass1_pc, words>>
    /\ UNCHANGED <<regs, mem, frames, mpc, encVars>>

\* codeGen after the last function: the IR file is validated and, when no
\* error is counted, handed to the emitter
codeGen ==
    /\ gen.stage = "flushed"
    /\ phase = "off"
    /\ mcfg.rest = << >>
    /\ \E validation_errors \in {validate_ir_file(gen.outputFile)} :
          /\ mcfg' = [mcfg EXCEPT !.validation_errors = validation_errors]
          /\ IF validation_errors = 0
             THEN \E s \in {EmitAll(initializeContext, gen.outputFile)} :
                     /\ ir' = gen.outputFile
                     /\ em' = s
                     /\ asm' = FixUp(s.out)
                     /\ phase' = "asm"
             ELSE /\ phase' = "rejected"
                  /\ UNCHANGED <<ir, em, asm>>
    /\ UNCHANGED <<labels, pass1_pc, words, gen>>
    /\ UNCHANGED <<regs, mem, frames, mpc, encVars>>

NextProg ==
    \/ BeginFunction
    \/ GenerateStatement
    \/ flush_function_buffer
    \/ NextFunction
    \/ codeGen
    \/ generateBinaryFromAssembly

SpecProg == InitProg /\ [][NextProg]_vars


----------------------------------------------------------------------------
(* Properties of whole programs *)

\* the assembly lines that jump or branch to a label the file never defines
UndefinedReferences(file, tab) ==
    {i \in DOMAIN file :
        /\ file[i].t = "ins"
        /\ file[i].mn \in {"j", "jal"} \cup BranchMnemonics
        /\ \E k \in DOMAIN file[i].ops :
              file[i].ops[k].k = "sym" /\ LabelAddress(tab, file[i].ops[k].s, 1) < 0}

\* C22: when a jump or branch of the assembly names a label that is never
\* defined, no binary word is produced for the program
C22_UndefinedLabelAborts ==
    (phase = "bin" /\ UndefinedReferences(asm, labels) # {}) => words = << >>


\* C23: an IR file whose numbers of funInicio and funFim lines differ is
\* counted as erroneous by the validation pass, so that codeGen does not hand
\* it to the emitter
C23_UnbalancedRejected ==
    (phase = "asm" /\ CountOp(ir, "funInicio") # CountOp(ir, "funFim"))
        => validate_ir_file(ir) > 0


----------------------------------------------------------------------------
(* Arguments of calls *)

\* the register the instruction emitted last writes
LastWritten(s) == s.out[Len(s.out)].ops[1].n

\* the last n entries of a sequence (all of it when it is shorter)
LastN(seq, n) == SubSeq(seq, (IF Len(seq) > n THEN Len(seq) - n ELSE 0) + 1, Len(seq))

\* the run of the emitter starts with no argument waiting and no call misplaced
ArgStart == [s |-> initializeContext, waiting |-> << >>, misplaced |-> 0, calls |-> 0]

\* the record after line l: a param line adds the register its argument was
\* written to; 'call f n' takes the last n waiting arguments, which are the
\* arguments of f in order (generate_expression_code writes each argument's
\* code, then its param line, then the call line), and is misplaced when the
\* i-th of them is not in register i
ArgLine(acc, l) ==
    CHOOSE q \in
      {IF l.op = "param"
       THEN [acc EXCEPT !.s = s1, !.waiting = Append(@, LastWritten(s1))]
       ELSE IF l.op = "call"
       THEN [s |-> s1,
             waiting |-> SubSeq(acc.waiting, 1,
                                Len(acc.waiting) - Len(LastN(acc.waiting, LiteralValue(l.a2)))),
             misplaced |-> acc.misplaced +
                 (IF /\ l.a1 \notin {"input", "output"}
                     /\ LastN(acc.waiting, LiteralValue(l.a2))
                            # [i \in 1..LiteralValue(l.a2) |-> i]
                  THEN 1 ELSE 0),
             calls |-> acc.calls + (IF l.a1 \notin {"input", "output"} THEN 1 ELSE 0)]
       ELSE [acc EXCEPT !.s = s1] : s1 \in {processIRLine(acc.s, l)}} : TRUE

RECURSIVE ArgAudit(_, _)
\* the emitter run line by line over irseq (the first half of the lines, then
\* the second)
ArgAudit(acc, irseq) ==
    IF Len(irseq) > 1
    THEN CHOOSE q \in
           {ArgAudit(a, SubSeq(irseq, (Len(irseq) \div 2) + 1, Len(irseq))) :
              a \in {ArgAudit(acc, SubSeq(irseq, 1, Len(irseq) \div 2))}} : TRUE
    ELSE IF irseq = << >> THEN acc
    ELSE CHOOSE q \in {ArgLine(acc, l) : l \in {irseq[1]}} : TRUE

\* C24: at every jal to a user function the i-th argument of the call is in
\* argument register i, also when an argument is itself a call
C24_ArgumentsByPosition ==
    phase = "asm" => ArgAudit(ArgStart, ir).misplaced = 0


----------------------------------------------------------------------------
(* Literal operands *)

\* the register-register mnemonics the emitter writes for arithmetic and
\* comparison lines
RegisterForms == {"add", "sub", "mult", "div", "slt"}

\* reg_map binds a register to the text of an integer literal
LiteralBound(s) ==
    \E j \in DOMAIN s.reg_map : s.reg_map[j].valid /\ s.reg_map[j].ir_name \in Literals

\* an instruction of a register-register form has an operand that is no register
NonRegisterOperand(file) ==
    \E i \in DOMAIN file :
        /\ file[i].t = "ins"
        /\ file[i].mn \in RegisterForms
        /\ \E k \in DOMAIN file[i].ops : file[i].ops[k].k # "reg"

\* C25: no literal operand of an arithmetic or comparison line is bound to a
\* register as if it were a name, and every operand of an emitted
\* register-register instruction is a register
C25_LiteralsAsValues ==
    phase = "asm" => ~LiteralBound(em) /\ ~NonRegisterOperand(asm)


----------------------------------------------------------------------------
(* What reaches the IR file, and when *)

\* the lines of the local declaration pass, which codeGen writes to the file
\* before the body is lowered
IsDeclLine(l) == l.op \in {"allocaMemVar", "allocaMemVet"}

IsMarker(l) == l.op \in {"funInicio", "funFim"}

\* line i of the file lies between the begin and the end marker of func
InsideFunction(file, i, func) ==
    /\ \E b \in 1..(i - 1) : file[b].op = "funInicio" /\ file[b].a1 = func
    /\ \E e \in (i + 1)..Len(file) : file[e].op = "funFim" /\ file[e].a1 = func

\* C26: while the body of a function is lowered nothing but the declaration
\* lines is in the IR file, and once the function is flushed every line
\* generated for the body lies between its begin and end markers
C26_AtomicLowering ==
    /\ gen.stage = "body" => \A i \in DOMAIN gen.outputFile : IsDeclLine(gen.outputFile[i])
    /\ gen.stage = "flushed" =>
          \A i \in DOMAIN gen.outputFile :
              (~IsDeclLine(gen.outputFile[i]) /\ ~IsMarker(gen.outputFile[i]))
                  => InsideFunction(gen.outputFile, i, gen.func)


----------------------------------------------------------------------------
(* Labels of several functions *)

\* index of the "Func name:" line of the function line i belongs to, 0 before
\* the first function
FuncOf(file, i) ==
    IF \E j \in 1..i : file[j].t = "func"
    THEN CHOOSE j \in 1..i : file[j].t = "func" /\ \A m \in (j + 1)..i : file[m].t # "func"
    ELSE 0

\* line i is a jump or a branch to a label
IsLabelReference(file, i) ==
    /\ file[i].t = "ins"
    /\ file[i].mn \in {"j"} \cup BranchMnemonics
    /\ file[i].ops # << >>
    /\ file[i].ops[Len(file[i].ops)].k = "sym"

\* line k defines, inside the function of line i, the label line i refers to
DefinesTargetOf(file, k, i) ==
    /\ file[k].t = "lab"
    /\ file[k].mn = file[i].ops[Len(file[i].ops)].s
    /\ FuncOf(file, k) = FuncOf(file, i)

\* C27: every jump or branch is resolved by the encoder to the address of the
\* label of that name defined in its own function
C27_LabelsPerFunction ==
    phase = "bin" =>
        \A i \in DOMAIN asm : \A k \in DOMAIN asm :
            (IsLabelReference(asm, i) /\ DefinesTargetOf(asm, k, i))
                => parseImmediate(asm[i].ops[Len(asm[i].ops)], labels)
                       = labels[LabelSlot(asm, k)].address


----------------------------------------------------------------------------
(* The return-value register *)

\* the IR move lines that name $rf, in file order
ResultMoves(file) ==
    SelectSeq(file, LAMBDA l : l.op = "move" /\ "$rf" \in {l.a1, l.a2})

\* the move instructions of the assembly that name r28, in file order
ResultCopies(file) ==
    SelectSeq(file, LAMBDA l : /\ l.t = "ins" /\ l.mn = "move" /\ Len(l.ops) = 2
                               /\ 28 \in {l.ops[1].n, l.ops[2].n})

\* generate_move(src, dst) writes "move src dst": with $rf first the line
\* takes the value out of the return-value register, with $rf second it puts
\* a value into it
WrittenDirection(l) == IF l.a1 = "$rf" THEN "from r28" ELSE "to r28"

\* "move rD rS" copies rS to rD
CopiedDirection(l) == IF l.ops[2].n = 28 THEN "from r28" ELSE "to r28"

\* C28: the move written after a call copies r28 into the temporary's
\* register, and the move written for a return copies the temporary's
\* register into r28
C28_MoveOrder ==
    phase = "asm" =>
        [i \in DOMAIN ResultMoves(ir) |-> WrittenDirection(ResultMoves(ir)[i])]
            = [i \in DOMAIN ResultCopies(asm) |-> CopiedDirection(ResultCopies(asm)[i])]


----------------------------------------------------------------------------
(* Return statements *)

\* the instruction the emitter writes for the line "move tN $rf" of a return
IsReturnCopy(l) ==
    l.t = "ins" /\ l.mn = "move" /\ Len(l.ops) = 2 /\ l.ops[2] = Reg(28) /\ l.org = "body"

\* the instruction executed after line i is the first of the function's
\* epilogue, or a jump to a label that stands right before the epilogue
LeadsToEpilogue(file, i) ==
    \E n \in {NextIns(file, i)} :
        /\ n > 0
        /\ \/ file[n].org = "epilogue"
           \/ /\ IsLabelReference(file, n) /\ file[n].mn = "j"
              /\ \E k \in DOMAIN file :
                    /\ DefinesTargetOf(file, k, n)
                    /\ NextIns(file, k) > 0
                    /\ file[NextIns(file, k)].org = "epilogue"

\* C29: after the instructions of a return statement control reaches the
\* epilogue of the function without executing a later statement
C29_ReturnEnds ==
    phase = "asm" => \A i \in DOMAIN asm : IsReturnCopy(asm[i]) => LeadsToEpilogue(asm, i)


----------------------------------------------------------------------------
(* Coverage of the generator's opcodes by the emitter *)

\* C30: no line the generator writes is translated to the '# Unknown IR'
\* placeholder
C30_EveryOpcodeTranslated ==
    JustEmitted => \A i \in DOMAIN asm : ~IsUnknownComment(asm[i])

=============================================================================
